---- MODULE Spec2Model ----
(***************************************************************************)
(* A model of the nova-renderer core: the free-list block allocation       *)
(* strategy (src/memory/block_allocation_strategy.cpp), shaderpack loading *)
(* and render-graph construction, and the frame loop (src/nova_renderer.cpp)*)
(*                                                                         *)
(* Each subsystem has its own specification (SpecAlloc, SpecLoad,          *)
(* SpecFrame); a specification holds the variables of the other            *)
(* subsystems at their initial values.                                     *)
(***************************************************************************)
EXTENDS Integers, Sequences, FiniteSets, TLC

VARIABLES
    \* ---- BlockAllocationStrategy ----
    blocks,          \* the Block nodes on the host heap: pointer -> Block
    head,            \* BlockAllocationStrategy::head
    memory_size,     \* BlockAllocationStrategy::memory_size
    alignment,       \* BlockAllocationStrategy::alignment
    allocated,       \* BlockAllocationStrategy::allocated
    next_block_id,   \* BlockAllocationStrategy::next_block_id
    allocation,      \* the caller's AllocationInfo out-parameter
    live,            \* allocations returned by allocate and not yet freed
    call,            \* the last call made on the strategy and what it returned
    ops,             \* number of calls made so far
    \* ---- NovaRenderer: shaderpack loading ----
    pack,                  \* the shaderpack data load_shaderpack_data reads
    renderpasses,          \* NovaRenderer::renderpasses, in submission order
    renderpass_metadatas,  \* NovaRenderer::renderpass_metadatas, by pass name
    builtin_renderpasses,  \* NovaRenderer::builtin_renderpasses, by pass name
    render_targets,        \* the render targets resource_storage holds, by name
    dynamic_texture_infos, \* NovaRenderer::dynamic_texture_infos, by name
    shaderpack_loaded,     \* NovaRenderer::shaderpack_loaded
    load_log,              \* what the last load_shaderpack call did and logged
    loads,                 \* number of load_shaderpack calls so far
    crashed,               \* the process died of undefined behaviour
    rhi_calls,             \* the objects the last load_shaderpack asked the RHI for
    \* ---- NovaRenderer: the frame loop ----
    frame_count,     \* NovaRenderer::frame_count
    cur_frame_idx,   \* NovaRenderer::cur_frame_idx
    frame_allocator, \* index into frame_allocators chosen by execute_frame
    frame_fences,    \* NovaRenderer::frame_fences: TRUE when signaled
    proc_meshes,     \* NovaRenderer::proc_meshes: mesh id -> ProceduralMesh
    next_mesh_id,    \* NovaRenderer::next_mesh_id
    pc,              \* execute_frame's position: 0 outside, k before statement k
    cmds,            \* the frame's command list
    graphics_queue,  \* submissions the GPU has not finished yet
    trace,           \* what the current execute_frame call has done so far
    calls,           \* number of execute_frame calls begun
    allocators_used, \* the frame_allocator index of each call so far
    \* ---- NovaRenderer: meshes, materials and renderables ----
    meshes,               \* NovaRenderer::meshes (the ids)
    transfer_submissions, \* command lists create_mesh gave to the transfer queue
    next_renderable_id,   \* NovaRenderer::next_renderable_id
    material_pass_keys,   \* NovaRenderer::material_pass_keys
    passes_by_pipeline,   \* NovaRenderer::passes_by_pipeline
    renderable_log,       \* the last add_renderable_for_material call
    \* ---- VulkanRenderDevice: fences ----
    vk_fences,            \* the device's fences: TRUE when signaled
    fence_call,           \* the last wait_for_fences or reset_fences call
    \* ---- VulkanRenderDevice: device memory ----
    memory_types,         \* gpu.memory_properties.memoryTypes (propertyFlags)
    mem_result,           \* the last allocate_device_memory call
    \* ---- ResourceManager ----
    resource_folders,     \* ResourceManager::resource_folders (the roots, in order)
    resource_call,        \* the last call made on the resource manager
    \* ---- threads calling add_renderable_for_material ----
    threads,              \* each thread's position in its call, and its locals
    returned_ids,         \* what the calls of the threads returned, in order
    \* ---- the build ----
    nova_debug,           \* NOVA_DEBUG is defined
    data_calls            \* calls of set_vertex_data and set_index_data so far

allocVars == <<blocks, head, memory_size, alignment, allocated, next_block_id,
               allocation, live, call, ops>>

loadVars == <<pack, renderpasses, renderpass_metadatas, builtin_renderpasses,
              render_targets, dynamic_texture_infos, shaderpack_loaded,
              load_log, loads, crashed, rhi_calls>>

frameVars == <<frame_count, cur_frame_idx, frame_allocator, frame_fences,
               proc_meshes, next_mesh_id, pc, cmds, graphics_queue, trace,
               calls, allocators_used>>

renderVars == <<meshes, transfer_submissions, next_renderable_id,
                material_pass_keys, passes_by_pipeline, renderable_log>>

fenceVars == <<vk_fences, fence_call>>

memVars == <<memory_types, mem_result>>

resVars == <<resource_folders, resource_call>>

threadVars == <<threads, returned_ids>>

buildVars == <<nova_debug, data_calls>>

moreVars == <<resVars, threadVars, buildVars>>

restVars == <<renderVars, fenceVars, memVars, moreVars>>

vars == <<allocVars, loadVars, frameVars, restVars>>

(***************************************************************************)
(* Bounds of the model                                                     *)
(***************************************************************************)
MemorySize == 4     \* the size handed to the constructor
MaxRequest == 3     \* the largest size asked of allocate
MaxOps == 5         \* calls of allocate/free in one behaviour
MaxPasses == 3      \* passes a shaderpack declares
MaxAttachPasses == 2
MaxLoads == 2       \* calls of load_shaderpack in one behaviour
MaxFrames == 4      \* calls of execute_frame in one behaviour
MaxMeshes == 2      \* meshes and procedural meshes created in one behaviour
MaxData == 3        \* the largest size given to set_vertex_data and set_index_data
MaxSetData == 2     \* calls of set_vertex_data and set_index_data in one behaviour
MaxRenderables == 3 \* calls of add_renderable_for_material in one behaviour
MaxMaterialCalls == 2 \* calls of create_materials_for_pipeline in one behaviour
MaxFences == 3      \* fences of the device
MaxFenceList == 2   \* fences in one wait_for_fences or reset_fences call
MaxMemoryTypes == 2 \* memory types of the device
MaxThreads == 2     \* threads that call add_renderable_for_material
MaxThreadCalls == 3 \* calls the threads make in one behaviour
MaxRoots == 3       \* directories the resource manager is called with
MaxRootCalls == 4   \* calls made on the resource manager in one behaviour
MaxColorAttachments == 2   \* gpu.props.limits.maxColorAttachments of the device

Alignments == {0, 2}

NULL == -1

\* nova_renderer/constants.hpp
NUM_IN_FLIGHT_FRAMES == 3

\* vulkan_core.h
VK_MAX_MEMORY_TYPES == 32

\* std::numeric_limits<uint64_t>::max(), as the 64-bit pattern of -1
uint64_max == -1

(***************************************************************************)
(* BlockAllocationStrategy                                                 *)
(***************************************************************************)

\* A default-constructed Block (allocator->create<Block>()).
Block == [id |-> 0, size |-> 0, offset |-> 0, previous |-> NULL, next |-> NULL,
          free |-> TRUE]

\* align(value, alignment): value rounded up to a multiple of the alignment;
\* an alignment of 0 asks for none.
align(value, a) == IF a = 0 THEN value ELSE ((value + a - 1) \div a) * a

\* The strategy's fields as one value, so that calls compose.
Strategy == [blocks |-> blocks, head |-> head, allocated |-> allocated,
             next_block_id |-> next_block_id, ub |-> FALSE]

\* make_new_block: a fresh node with the next id; the node's address is its id.
make_new_block(st, offset, size) ==
    LET p == st.next_block_id
        block == [Block EXCEPT !.id = st.next_block_id, !.size = size,
                               !.offset = offset]
    IN [st |-> [st EXCEPT !.blocks = (p :> block) @@ st.blocks,
                          !.next_block_id = st.next_block_id + 1],
        block |-> p]

\* allocator->deallocate(block): the node's storage is gone.
deallocate(bs, p) == [q \in (DOMAIN bs) \ {p} |-> bs[q]]

\* The nodes reached from p through next, in order (at most fuel of them).
RECURSIVE Walk(_, _, _)
Walk(bs, p, fuel) ==
    IF p = NULL \/ p \notin DOMAIN bs \/ fuel = 0 THEN <<>>
    ELSE <<p>> \o Walk(bs, bs[p].next, fuel - 1)

BlockList(st) == Walk(st.blocks, st.head, Cardinality(DOMAIN st.blocks))

\* The search loop of allocate: the first node from p on that is free and large
\* enough (the loop breaks on the first candidate), or NULL.
RECURSIVE find_fit(_, _, _, _)
find_fit(bs, p, size, fuel) ==
    IF p = NULL \/ p \notin DOMAIN bs \/ fuel = 0 THEN NULL
    ELSE IF ~bs[p].free \/ bs[p].size < size
         THEN find_fit(bs, bs[p].next, size, fuel - 1)
         ELSE p

\* A faulty free-space computation that forgets what is already handed out.
free_space_ignoring_allocated(st, msize) == msize

\* const Bytes free_size = memory_size - allocated;
free_space(st, msize) == msize - st.allocated

\* BlockAllocationStrategy::allocate(size, allocation): the new strategy, the
\* returned bool and the out-parameter.
allocate(st, msize, algn, request, out) ==
    LET size == align(request, algn)
        free_size == free_space(st, msize)
        best_fit == find_fit(st.blocks, st.head, size, Cardinality(DOMAIN st.blocks))
    IN IF free_size < size THEN [st |-> st, ret |-> FALSE, allocation |-> out]
       ELSE IF best_fit = NULL THEN [st |-> st, ret |-> FALSE, allocation |-> out]
       ELSE
         LET bf == st.blocks[best_fit]
             made == make_new_block(st, bf.offset + size, bf.size - size)
             split == [made.st EXCEPT
                          !.blocks[made.block].next = bf.next,
                          !.blocks[made.block].previous = best_fit,
                          !.blocks[best_fit].next = made.block]
             st1 == IF bf.size > size THEN split ELSE st
         IN [st |-> [st1 EXCEPT !.allocated = st.allocated + size],
             ret |-> TRUE,
             allocation |-> [size |-> size, offset |-> bf.offset,
                             internal_data |-> best_fit]]

\* BlockAllocationStrategy::free(alloc). Touching a node whose storage was
\* deallocated is undefined behaviour: the result is flagged ub and the model
\* stops there.
free(st, alloc) ==
    LET block0 == alloc.internal_data
        bs0 == st.blocks
    IN IF block0 \notin DOMAIN bs0 THEN [st EXCEPT !.ub = TRUE]
       ELSE
         LET bs1 == [bs0 EXCEPT ![block0].free = TRUE]
             prev == bs1[block0].previous
             nxt0 == bs1[block0].next
         IN IF prev # NULL /\ prev \notin DOMAIN bs1 THEN [st EXCEPT !.ub = TRUE]
            ELSE
              LET back == prev # NULL /\ bs1[prev].free
                  relinked == [bs1 EXCEPT ![prev].next = nxt0,
                                          ![prev].size = @ + bs1[block0].size]
                  fixed == IF nxt0 # NULL
                           THEN [relinked EXCEPT ![nxt0].previous = prev]
                           ELSE relinked
                  bs2 == IF back THEN deallocate(fixed, block0) ELSE bs1
                  block == IF back THEN prev ELSE block0
                  next == bs2[block].next
              IN IF \/ (back /\ nxt0 # NULL /\ nxt0 \notin DOMAIN bs1)
                    \/ (next # NULL /\ next \notin DOMAIN bs2)
                 THEN [st EXCEPT !.ub = TRUE]
                 ELSE
                   LET fwd == next # NULL /\ bs2[next].free
                       nn == bs2[next].next
                       bs3 == IF nn # NULL
                              THEN [bs2 EXCEPT ![nn].previous = block]
                              ELSE bs2
                       bs4 == [bs3 EXCEPT ![block].next = nn,
                                          ![block].size = @ + bs2[next].size]
                   IN IF fwd /\ nn # NULL /\ nn \notin DOMAIN bs2
                      THEN [st EXCEPT !.ub = TRUE]
                      ELSE [st EXCEPT
                              !.blocks = IF fwd THEN deallocate(bs4, next) ELSE bs2,
                              !.allocated = st.allocated - alloc.size]

\* The constructor: one free block covering the whole region.
InitAlloc ==
    /\ memory_size = MemorySize
    /\ alignment \in Alignments
    /\ blocks = (0 :> [Block EXCEPT !.size = MemorySize])
    /\ head = 0
    /\ next_block_id = 1
    /\ allocated = 0
    /\ allocation = [size |-> 0, offset |-> 0, internal_data |-> NULL]
    /\ live = <<>>
    /\ call = [op |-> "new", size |-> 0, ret |-> TRUE, ub |-> FALSE]
    /\ ops = 0

Remove(s, i) == [k \in 1..(Len(s) - 1) |-> IF k < i THEN s[k] ELSE s[k + 1]]

(***************************************************************************)
(* NovaRenderer: shaderpack loading and render-graph construction          *)
(***************************************************************************)
BACKBUFFER_NAME == "Backbuffer"
UI_RENDER_PASS_NAME == "NovaUI"

\* rhi->get_swapchain()->get_size()
SwapchainSize == <<2, 2>>

\* The names shaderpacks of the model give their passes, by position.
PassNames == <<"A", "B", "C", "D", "E">>

Min(S) == CHOOSE x \in S : \A y \in S : x <= y

\* shaderpack::RenderPassCreateInfo
RenderPassCreateInfo(name, dependencies, texture_outputs) ==
    [name |-> name, dependencies |-> dependencies,
     texture_outputs |-> texture_outputs, depth_texture |-> ""]

\* The renderer's tables as one value, so that calls compose.
Renderer == [renderpasses |-> renderpasses,
             renderpass_metadatas |-> renderpass_metadatas,
             builtin_renderpasses |-> builtin_renderpasses,
             render_targets |-> render_targets,
             dynamic_texture_infos |-> dynamic_texture_infos,
             rhi_calls |-> rhi_calls]

\* std::make_shared<Renderpass>(): a pass object with no backend objects yet
Renderpass == [name |-> "", id |-> 0, renderpass |-> "null", framebuffer |-> "null",
               writes_to_backbuffer |-> FALSE, is_builtin |-> FALSE]

\* order_passes: the passes sorted so that each one comes after the passes it
\* depends on, stable to the input order; an error when a cycle leaves no pass
\* whose dependencies are all placed.
RECURSIVE order_rec(_, _)
order_rec(remaining, placed) ==
    IF remaining = <<>> THEN [has_value |-> TRUE, value |-> placed]
    ELSE LET done == {placed[k].name : k \in DOMAIN placed}
             ready == {k \in DOMAIN remaining : remaining[k].dependencies \subseteq done}
         IN IF ready = {} THEN [has_value |-> FALSE, value |-> <<>>]
            ELSE order_rec(Remove(remaining, Min(ready)),
                           Append(placed, remaining[Min(ready)]))

order_passes(passes) == order_rec(passes, <<>>)

\* Result::value read while the result holds an error: the bytes of the error
\* read as a vector. The model lets the vector be empty or be the unsorted
\* input; the third outcome, the process dying, is taken in load_shaderpack.
UndefinedValue(passes) == {<<>>, passes}

\* VulkanRenderDevice::create_renderpass: the checks that decide between a
\* renderpass and an error. framebuffer_attachments is declared and never
\* filled, so its size is 0.
create_renderpass(data, framebuffer_size) ==
    LET outs == data.texture_outputs
        writes_to_backbuffer == \E k \in DOMAIN outs : outs[k] = BACKBUFFER_NAME
        framebuffer_width == IF writes_to_backbuffer THEN SwapchainSize[1]
                             ELSE framebuffer_size[1]
        framebuffer_height == IF writes_to_backbuffer THEN SwapchainSize[2]
                              ELSE framebuffer_size[2]
        framebuffer_attachments == <<>>
    IN IF framebuffer_width = 0 THEN [has_value |-> FALSE, value |-> "null"]
       ELSE IF framebuffer_height = 0 THEN [has_value |-> FALSE, value |-> "null"]
       ELSE IF Len(framebuffer_attachments) > MaxColorAttachments
            THEN [has_value |-> FALSE, value |-> "null"]
       ELSE [has_value |-> TRUE, value |-> "live"]

\* a backbuffer test that lets the backbuffer stand next to other outputs
backbuffer_anywhere(create_info) == TRUE

\* create_info.texture_outputs.size() == 1
backbuffer_alone(create_info) == Len(create_info.texture_outputs) = 1

\* attachment_size.x != framebuffer_size.x || attachment_size.y != framebuffer_size.y
sizes_differ(attachment_size, framebuffer_size) ==
    \/ attachment_size[1] # framebuffer_size[1]
    \/ attachment_size[2] # framebuffer_size[2]

\* The loop of add_render_pass over create_info.texture_outputs, from the
\* k-th output on.
RECURSIVE collect_attachments(_, _, _, _)
collect_attachments(r, create_info, k, acc) ==
    IF k > Len(create_info.texture_outputs) THEN acc
    ELSE
      LET name == create_info.texture_outputs[k]
          size == r.render_targets[name]
          next ==
            IF name = BACKBUFFER_NAME
            THEN IF backbuffer_alone(create_info)
                 THEN [acc EXCEPT !.writes_to_backbuffer = TRUE,
                                  !.renderpass.writes_to_backbuffer = TRUE,
                                  !.renderpass.framebuffer = "null"]
                 ELSE [acc EXCEPT !.writes_to_backbuffer = TRUE,
                                  !.attachment_errors = Append(@, "backbuffer")]
            ELSE IF name \in DOMAIN r.render_targets
                 THEN IF acc.framebuffer_size[1] > 0
                      THEN IF sizes_differ(size, acc.framebuffer_size)
                           THEN [acc EXCEPT !.color_attachments = Append(@, name),
                                            !.attachment_errors = Append(@, "size")]
                           ELSE [acc EXCEPT !.color_attachments = Append(@, name)]
                      ELSE [acc EXCEPT !.color_attachments = Append(@, name),
                                       !.framebuffer_size = size]
                 ELSE acc
      IN collect_attachments(r, create_info, k + 1, next)

\* NovaRenderer::add_render_pass: the renderer with the pass added, or
\* unchanged when the pass is refused; and the pass object as it is left.
add_render_pass(r, create_info, renderpass) ==
    LET acc == collect_attachments(r, create_info, 1,
                   [color_attachments |-> <<>>, framebuffer_size |-> <<0, 0>>,
                    attachment_errors |-> <<>>, writes_to_backbuffer |-> FALSE,
                    renderpass |-> renderpass])
        renderpass_result == create_renderpass(create_info, acc.framebuffer_size)
        built == [acc.renderpass EXCEPT
                    !.name = create_info.name,
                    !.renderpass = renderpass_result.value,
                    !.framebuffer = IF ~acc.writes_to_backbuffer THEN "live" ELSE @,
                    !.id = Cardinality(DOMAIN r.renderpass_metadatas)]
        asked == [call |-> "create_renderpass", pass |-> create_info.name,
                  has_value |-> renderpass_result.has_value,
                  color_attachments |-> <<>>, depth_attachment |-> "",
                  framebuffer_size |-> acc.framebuffer_size]
        depth_attachment ==
            IF create_info.depth_texture # ""
               /\ create_info.depth_texture \in DOMAIN r.render_targets
            THEN create_info.depth_texture ELSE ""
        framebuffer == [call |-> "create_framebuffer", pass |-> create_info.name,
                        has_value |-> TRUE,
                        color_attachments |-> acc.color_attachments,
                        depth_attachment |-> depth_attachment,
                        framebuffer_size |-> acc.framebuffer_size]
    IN IF acc.attachment_errors # <<>> THEN [r |-> r, renderpass |-> acc.renderpass]
       ELSE IF ~renderpass_result.has_value
            THEN [r |-> [r EXCEPT !.rhi_calls = Append(@, asked)],
                  renderpass |-> acc.renderpass]
       ELSE [r |-> [r EXCEPT
                      !.renderpasses = Append(@, built),
                      !.renderpass_metadatas =
                          IF create_info.name \in DOMAIN @ THEN @
                          ELSE @ @@ (create_info.name :> create_info),
                      !.rhi_calls = IF ~acc.writes_to_backbuffer
                                    THEN @ \o <<asked, framebuffer>>
                                    ELSE Append(@, asked)],
             renderpass |-> built]

\* NovaRenderer::create_render_passes: add_render_pass for each pass, in order.
RECURSIVE create_render_passes(_, _)
create_render_passes(r, pass_create_infos) ==
    IF pass_create_infos = <<>> THEN r
    ELSE create_render_passes(
             add_render_pass(r, Head(pass_create_infos), Renderpass).r,
             Tail(pass_create_infos))

\* NovaRenderer::create_dynamic_textures
RECURSIVE create_dynamic_textures(_, _)
create_dynamic_textures(r, texture_create_infos) ==
    IF texture_create_infos = <<>> THEN r
    ELSE LET info == Head(texture_create_infos)
             made == [r EXCEPT
                        !.render_targets = (info.name :> info.size) @@ @,
                        !.dynamic_texture_infos = @ \cup {info.name}]
         IN create_dynamic_textures(made, Tail(texture_create_infos))

\* NovaRenderer::destroy_renderpasses: the backend objects of every pass that
\* is not builtin are destroyed; the list itself is left as it is. Destroying
\* a null framebuffer or an object destroyed before is undefined behaviour.
destroy_renderpasses(r) ==
    LET mine == {k \in DOMAIN r.renderpasses : ~r.renderpasses[k].is_builtin}
    IN [r |-> [r EXCEPT !.renderpasses =
                   [k \in DOMAIN r.renderpasses |->
                      IF k \in mine
                      THEN [r.renderpasses[k] EXCEPT !.renderpass = "destroyed",
                                                     !.framebuffer = "destroyed"]
                      ELSE r.renderpasses[k]]],
        ub |-> \E k \in mine : \/ r.renderpasses[k].renderpass # "live"
                               \/ r.renderpasses[k].framebuffer # "live"]

\* The loop of load_shaderpack over data.graph_data.builtin_passes.
RECURSIVE add_builtin_passes(_, _)
add_builtin_passes(r, names) ==
    IF names = <<>> THEN r
    ELSE add_builtin_passes(
             IF Head(names) \in DOMAIN r.builtin_renderpasses
             THEN [r EXCEPT !.renderpasses =
                                Append(@, r.builtin_renderpasses[Head(names)])]
             ELSE r,
             Tail(names))

\* NovaRenderer::load_shaderpack after the passes were ordered: `value` is what
\* order_passes(...).value yielded.
load_shaderpack(r, loaded, data, value) ==
    LET cleared == IF loaded THEN destroy_renderpasses(r).r ELSE r
        textured == create_dynamic_textures(cleared, data.render_targets)
        created == create_render_passes(textured, value)
    IN add_builtin_passes(created, data.builtin_passes)

\* NovaRenderer::create_builtin_renderpasses
create_builtin_renderpasses(r) ==
    LET ui == RenderPassCreateInfo(UI_RENDER_PASS_NAME, {}, <<BACKBUFFER_NAME>>)
        added == add_render_pass(r, ui, Renderpass)
        ui_renderpass == [added.renderpass EXCEPT !.is_builtin = TRUE]
    IN [added.r EXCEPT
          !.renderpasses = [k \in DOMAIN @ |->
                              IF k > Len(r.renderpasses)
                              THEN [@[k] EXCEPT !.is_builtin = TRUE] ELSE @[k]],
          !.builtin_renderpasses = (UI_RENDER_PASS_NAME :> ui_renderpass) @@ @]

\* The renderer as its constructor leaves it.
Constructed ==
    create_builtin_renderpasses(
        [renderpasses |-> <<>>, renderpass_metadatas |-> <<>>,
         builtin_renderpasses |-> <<>>, render_targets |-> <<>>,
         dynamic_texture_infos |-> {}, rhi_calls |-> <<>>])

(***************************************************************************)
(* Shaderpacks of the model                                                *)
(***************************************************************************)
NoPack == [passes |-> <<>>, render_targets |-> <<>>, builtin_passes |-> <<>>]

NamesUpTo(n) == {PassNames[k] : k \in 1..n}

\* Passes in the order A, B, ..., each depending on any of the others and
\* writing the one render target of the pack.
OrderPack(deps) ==
    [passes |-> [k \in DOMAIN deps |->
                   RenderPassCreateInfo(PassNames[k], deps[k], <<"T1">>)],
     render_targets |-> <<[name |-> "T1", size |-> <<1, 1>>]>>,
     builtin_passes |-> <<UI_RENDER_PASS_NAME>>]

OrderPacks ==
    {OrderPack(deps) :
        deps \in {d \in UNION {[1..n -> SUBSET NamesUpTo(n)] : n \in 1..MaxPasses} :
                     \A k \in DOMAIN d : PassNames[k] \notin d[k]}}

\* The attachments the passes of AttachPacks declare, as <<texture_outputs,
\* depth_texture>> ("" for no depth texture): render targets of one size and
\* of two sizes, the backbuffer alone and next to a render target, a name no
\* render target has, and more colour attachments than the device takes.
Outputs ==
    {<<<<"T1">>, "">>, <<<<"T1", "T3">>, "">>, <<<<"T1", "T2">>, "">>,
     <<<<"T2", "T1">>, "">>, <<<<"T1">>, "T3">>, <<<<"T1">>, "T2">>,
     <<<<BACKBUFFER_NAME>>, "">>, <<<<BACKBUFFER_NAME, "T1">>, "">>,
     <<<<"T1", BACKBUFFER_NAME>>, "">>,
     <<<<"Tx">>, "">>, <<<<"T1", "Tx">>, "">>, <<<<"T1", "T3", "T4">>, "">>}

\* Passes A, B, ... without dependencies, each writing one of Outputs; the
\* pack declares the render targets T1..T4, T2 higher than the others.
AttachPack(outs) ==
    [passes |-> [k \in DOMAIN outs |->
                   [RenderPassCreateInfo(PassNames[k], {}, outs[k][1])
                       EXCEPT !.depth_texture = outs[k][2]]],
     render_targets |-> <<[name |-> "T1", size |-> <<1, 1>>],
                          [name |-> "T2", size |-> <<1, 2>>],
                          [name |-> "T3", size |-> <<1, 1>>],
                          [name |-> "T4", size |-> <<1, 1>>]>>,
     builtin_passes |-> <<UI_RENDER_PASS_NAME>>]

AttachPacks ==
    {AttachPack(outs) : outs \in UNION {[1..n -> Outputs] : n \in 1..MaxAttachPasses}}

\* NovaRenderer's frame state after construction: create_global_sync_objects
\* creates the fences signaled
InitFrame ==
    /\ frame_count = 0
    /\ cur_frame_idx = 0
    /\ frame_allocator = 0
    /\ frame_fences = [i \in 0..(NUM_IN_FLIGHT_FRAMES - 1) |-> TRUE]
    /\ proc_meshes = <<>>
    /\ next_mesh_id = 0
    /\ pc = 0
    /\ cmds = [state |-> "none", commands |-> <<>>]
    /\ graphics_queue = <<>>
    /\ trace = <<>>
    /\ calls = 0
    /\ allocators_used = <<>>

\* no mesh, no material and no renderable yet
InitRenderables ==
    /\ meshes = {}
    /\ transfer_submissions = 0
    /\ next_renderable_id = 0
    /\ material_pass_keys = <<>>
    /\ passes_by_pipeline = <<>>
    /\ renderable_log = [calls |-> 0, material_name |-> <<>>, found |-> FALSE,
                         ret |-> 0]

FenceIds == 0..(MaxFences - 1)

\* no wait_for_fences or reset_fences call yet
NoFenceCall == [op |-> "none", fences |-> <<>>, handles |-> <<>>,
                returned |-> FALSE, all_signaled |-> FALSE,
                all_unsignaled |-> FALSE]

\* VulkanRenderDevice::create_fences(num_fences, true)
InitFences ==
    /\ vk_fences = [f \in FenceIds |-> TRUE]
    /\ fence_call = NoFenceCall

NoMemoryCall == [called |-> FALSE, usage |-> "", memoryTypeIndex |-> 0,
                 vk_result |-> "", has_value |-> FALSE, memory |-> ""]

\* ResourceManager() = default: no root yet
NoResourceCall == [op |-> "none", root |-> 0, was_listed |-> FALSE,
                   before |-> <<>>, calls |-> 0]

InitResources ==
    /\ resource_folders = <<>>
    /\ resource_call = NoResourceCall

ThreadIds == 1..MaxThreads

\* a thread that is not inside add_renderable_for_material
IdleThread == [pc |-> "idle", id |-> 0, material_name |-> <<>>,
               renderable |-> [mesh |-> 0, is_static |-> FALSE]]

InitThreads ==
    /\ threads = [t \in ThreadIds |-> IdleThread]
    /\ returned_ids = <<>>

\* a debug build, and no mesh data set yet
InitBuild == nova_debug = TRUE /\ data_calls = 0

InitMore == InitResources /\ InitThreads /\ InitBuild

\* a device with one device-local and one host-visible memory type
InitMemory ==
    /\ memory_types = <<{"DEVICE_LOCAL"}, {"HOST_VISIBLE", "HOST_CACHED"}>>
    /\ mem_result = NoMemoryCall

InitLoad ==
    /\ renderpasses = Constructed.renderpasses
    /\ renderpass_metadatas = Constructed.renderpass_metadatas
    /\ builtin_renderpasses = Constructed.builtin_renderpasses
    /\ render_targets = Constructed.render_targets
    /\ dynamic_texture_infos = Constructed.dynamic_texture_infos
    /\ rhi_calls = Constructed.rhi_calls
    /\ shaderpack_loaded = FALSE
    /\ load_log = [order_error |-> FALSE, create_called |-> FALSE,
                   success_logged |-> FALSE, first |-> 0]
    /\ loads = 0
    /\ crashed = FALSE

\* A call of load_shaderpack. Reading .value of a failed order_passes result and
\* destroying a backend object that is null or already destroyed are undefined
\* behaviour: the call may go on or the process may die.
Load ==
    /\ loads < MaxLoads
    /\ ~crashed
    /\ pc = 0
    /\ LET ordered == order_passes(pack.passes)
           ub == \/ ~ordered.has_value
                 \/ (shaderpack_loaded /\ destroy_renderpasses(Renderer).ub)
       IN \E value \in (IF ordered.has_value THEN {ordered.value}
                        ELSE UndefinedValue(pack.passes)),
             dies \in {b \in BOOLEAN : b => ub} :
            IF dies
            THEN /\ crashed' = TRUE
                 /\ load_log' = [order_error |-> ~ordered.has_value,
                                 create_called |-> FALSE,
                                 success_logged |-> FALSE,
                                 first |-> Len(renderpasses) + 1]
                 /\ UNCHANGED <<renderpasses, renderpass_metadatas,
                                builtin_renderpasses, render_targets,
                                dynamic_texture_infos, shaderpack_loaded,
                                rhi_calls>>
            ELSE LET r == load_shaderpack([Renderer EXCEPT !.rhi_calls = <<>>],
                                          shaderpack_loaded, pack, value)
                 IN /\ renderpasses' = r.renderpasses
                    /\ renderpass_metadatas' = r.renderpass_metadatas
                    /\ builtin_renderpasses' = r.builtin_renderpasses
                    /\ render_targets' = r.render_targets
                    /\ dynamic_texture_infos' = r.dynamic_texture_infos
                    /\ rhi_calls' = r.rhi_calls
                    /\ shaderpack_loaded' = TRUE
                    /\ load_log' = [order_error |-> ~ordered.has_value,
                                    create_called |-> TRUE,
                                    success_logged |-> TRUE,
                                    first |-> Len(renderpasses) + 1]
                    /\ crashed' = FALSE
    /\ loads' = loads + 1
    /\ UNCHANGED <<pack, allocVars, frameVars, restVars>>

NextLoad == Load

InitSpecLoad ==
    /\ InitAlloc /\ alignment = 0 /\ InitLoad /\ InitFrame
    /\ InitRenderables /\ InitMore /\ InitFences /\ InitMemory
    /\ pack \in OrderPacks \cup AttachPacks

SpecLoad == InitSpecLoad /\ [][NextLoad]_vars

(***************************************************************************)
(* NovaRenderer: the frame loop                                            *)
(***************************************************************************)
\* execute_frame with the two steps after submit_command_list exchanged
execute_frame_present_first ==
    <<"frame_count", "acquire_next_swapchain_image", "reset_fences",
      "create_command_list", "record_uploads", "record_passes",
      "submit_command_list", "present", "wait_for_fences">>

\* The statements of execute_frame, in the order they are written.
execute_frame ==
    <<"frame_count", "acquire_next_swapchain_image", "reset_fences",
      "create_command_list", "record_uploads", "record_passes",
      "submit_command_list", "wait_for_fences", "present">>

\* an index that assumes two frames in flight
select_every_other(count) == count % (NUM_IN_FLIGHT_FRAMES - 1)

\* frame_allocators[frame_count % NUM_IN_FLIGHT_FRAMES]
select_frame_allocator(count) == count % NUM_IN_FLIGHT_FRAMES

\* create_global_allocators: one allocator per in-flight frame
frame_allocators == 0..(NUM_IN_FLIGHT_FRAMES - 1)

\* the statement execute_frame is about to run; "" outside a call
Statement == IF pc = 0 THEN "" ELSE execute_frame[pc]

\* execute_frame goes on to its next statement, or returns after the last
Advance == pc' = IF pc = Len(execute_frame) THEN 0 ELSE pc + 1

Did(step, idx) == trace' = Append(trace, [step |-> step, idx |-> idx])

\* num_vertex_bytes_to_upload and num_index_bytes_to_upload of a new mesh
NothingToUpload == 0

\* ProceduralMesh::ProceduralMesh(vertex_buffer_size, index_buffer_size, ...):
\* the staging buffers and the device buffers are created with the declared
\* sizes. cached_vertex_bytes and cached_index_bytes are the bytes the last
\* write_data_to_buffer call wrote to the staging buffers.
ProceduralMesh(vertex_buffer_size, index_buffer_size) ==
    [vertex_buffer_size |-> vertex_buffer_size,
     index_buffer_size |-> index_buffer_size,
     cached_vertex_bytes |-> 0,
     cached_index_bytes |-> 0,
     num_vertex_bytes_to_upload |-> NothingToUpload,
     num_index_bytes_to_upload |-> NothingToUpload]

\* the sizes create_procedural_mesh is called with: <<vertex_size, index_size>>
ProcMeshSizes == {<<2, 1>>}

\* ProceduralMesh::set_vertex_data(data, size): the check and the truncation
\* are compiled in debug builds only
set_vertex_data(mesh, size, debug) ==
    IF debug /\ size > mesh.vertex_buffer_size
    THEN [mesh EXCEPT !.cached_vertex_bytes = mesh.vertex_buffer_size,
                      !.num_vertex_bytes_to_upload = mesh.vertex_buffer_size]
    ELSE [mesh EXCEPT !.cached_vertex_bytes = size,
                      !.num_vertex_bytes_to_upload = size]

\* ProceduralMesh::set_index_data(data, size)
set_index_data(mesh, size, debug) ==
    IF debug /\ size > mesh.index_buffer_size
    THEN [mesh EXCEPT !.cached_index_bytes = mesh.index_buffer_size,
                      !.num_index_bytes_to_upload = mesh.index_buffer_size]
    ELSE [mesh EXCEPT !.cached_index_bytes = size,
                      !.num_index_bytes_to_upload = size]

\* a RhiResourceBarrier of record_commands_to_upload_data
RhiResourceBarrier(resource, old_state, new_state, size) ==
    [resource_to_barrier |-> resource, old_state |-> old_state,
     new_state |-> new_state, size |-> size]

\* the copies recorded ahead of the barrier that makes the buffers writable
upload_commands_copy_first(before, copies, after) == copies \o <<before, after>>

\* the commands of one mesh in the order the function records them
upload_commands(before, copies, after) == <<before>> \o copies \o <<after>>

\* ProceduralMesh::record_commands_to_upload_data(cmds, frame_idx): the
\* commands it records, for the mesh with the given key in proc_meshes
record_commands_to_upload_data(mesh, id, frame_idx) ==
    LET should_upload_vertex_buffer == mesh.num_vertex_bytes_to_upload > 0
        should_upload_index_buffer == mesh.num_index_bytes_to_upload > 0
        cur_vertex_buffer == <<"vertex_buffers", id, frame_idx>>
        cur_index_buffer == <<"index_buffers", id, frame_idx>>
        barriers_before_upload ==
            (IF should_upload_vertex_buffer
             THEN <<RhiResourceBarrier(cur_vertex_buffer, "VertexBuffer",
                                       "CopyDestination",
                                       mesh.num_vertex_bytes_to_upload)>>
             ELSE <<>>)
            \o (IF should_upload_index_buffer
                THEN <<RhiResourceBarrier(cur_index_buffer, "IndexBuffer",
                                          "CopyDestination",
                                          mesh.num_index_bytes_to_upload)>>
                ELSE <<>>)
        copies ==
            (IF should_upload_vertex_buffer
             THEN <<[cmd |-> "copy_buffer", mesh |-> id, idx |-> frame_idx,
                     destination |-> cur_vertex_buffer,
                     source |-> <<"cached_vertex_buffer", id>>,
                     num_bytes |-> mesh.num_vertex_bytes_to_upload]>>
             ELSE <<>>)
            \o (IF should_upload_index_buffer
                THEN <<[cmd |-> "copy_buffer", mesh |-> id, idx |-> frame_idx,
                        destination |-> cur_index_buffer,
                        source |-> <<"cached_index_buffer", id>>,
                        num_bytes |-> mesh.num_index_bytes_to_upload]>>
                ELSE <<>>)
        barriers_after_upload ==
            (IF should_upload_vertex_buffer
             THEN <<RhiResourceBarrier(cur_vertex_buffer, "CopyDestination",
                                       "VertexBuffer",
                                       mesh.num_vertex_bytes_to_upload)>>
             ELSE <<>>)
            \o (IF should_upload_index_buffer
                THEN <<RhiResourceBarrier(cur_index_buffer, "CopyDestination",
                                          "IndexBuffer",
                                          mesh.num_index_bytes_to_upload)>>
                ELSE <<>>)
    IN IF barriers_before_upload = <<>> THEN <<>>
       ELSE upload_commands(
                [cmd |-> "resource_barriers", mesh |-> id, idx |-> frame_idx,
                 stages |-> <<"VertexInput", "Transfer">>,
                 barriers |-> barriers_before_upload],
                copies,
                [cmd |-> "resource_barriers", mesh |-> id, idx |-> frame_idx,
                 stages |-> <<"Transfer", "VertexInput">>,
                 barriers |-> barriers_after_upload])

\* NovaRenderer::create_procedural_mesh
CreateProceduralMesh ==
    /\ pc = 0 /\ ~crashed
    /\ next_mesh_id < MaxMeshes
    /\ \E sizes \in ProcMeshSizes :
          proc_meshes' = proc_meshes @@ (next_mesh_id :> ProceduralMesh(sizes[1], sizes[2]))
    /\ next_mesh_id' = next_mesh_id + 1
    /\ UNCHANGED <<frame_count, cur_frame_idx, frame_allocator, frame_fences, pc,
                   cmds, graphics_queue, trace, calls, allocators_used,
                   allocVars, loadVars, restVars>>

\* execute_frame is called: frame_count++ and the frame's allocator is chosen
BeginFrame ==
    /\ pc = 0 /\ ~crashed
    /\ calls < MaxFrames
    /\ execute_frame[1] = "frame_count"
    /\ frame_count' = frame_count + 1
    /\ frame_allocator' = select_frame_allocator(frame_count')
    /\ allocators_used' = Append(allocators_used, frame_allocator')
    /\ calls' = calls + 1
    /\ trace' = <<>>
    /\ pc' = 2
    /\ UNCHANGED <<cur_frame_idx, frame_fences, proc_meshes, next_mesh_id, cmds,
                   graphics_queue, allocVars, loadVars, restVars>>

\* cur_frame_idx = swapchain->acquire_next_swapchain_image(): the swapchain
\* hands out any of its NUM_IN_FLIGHT_FRAMES images
AcquireImage ==
    /\ Statement = "acquire_next_swapchain_image"
    /\ \E i \in 0..(NUM_IN_FLIGHT_FRAMES - 1) : cur_frame_idx' = i
    /\ Did("acquire", cur_frame_idx')
    /\ Advance
    /\ UNCHANGED <<frame_count, frame_allocator, frame_fences, proc_meshes,
                   next_mesh_id, cmds, graphics_queue, calls, allocators_used,
                   allocVars, loadVars, restVars>>

\* rhi->reset_fences({frame_fences.at(cur_frame_idx)})
ResetFences ==
    /\ Statement = "reset_fences"
    /\ frame_fences' = [frame_fences EXCEPT ![cur_frame_idx] = FALSE]
    /\ Did("reset", cur_frame_idx)
    /\ Advance
    /\ UNCHANGED <<frame_count, cur_frame_idx, frame_allocator, proc_meshes,
                   next_mesh_id, cmds, graphics_queue, calls, allocators_used,
                   allocVars, loadVars, restVars>>

\* cmds = rhi->create_command_list(frame_allocator, 0, QueueType::Graphics)
CreateCommandList ==
    /\ Statement = "create_command_list"
    /\ cmds' = [state |-> "recording", commands |-> <<>>]
    /\ Did("create", cur_frame_idx)
    /\ Advance
    /\ UNCHANGED <<frame_count, cur_frame_idx, frame_allocator, frame_fences,
                   proc_meshes, next_mesh_id, graphics_queue, calls,
                   allocators_used, allocVars, loadVars, restVars>>

\* the ids of a set, in increasing order
RECURSIVE Sorted(_)
Sorted(S) == IF S = {} THEN <<>> ELSE <<Min(S)>> \o Sorted(S \ {Min(S)})

\* the commands the loop over proc_meshes records, mesh after mesh
RECURSIVE uploads_of(_, _, _)
uploads_of(mesh_map, ids, frame_idx) ==
    IF ids = <<>> THEN <<>>
    ELSE record_commands_to_upload_data(mesh_map[Head(ids)], Head(ids), frame_idx)
         \o uploads_of(mesh_map, Tail(ids), frame_idx)

\* for(auto& [id, proc_mesh] : proc_meshes)
\*     proc_mesh.record_commands_to_upload_data(cmds, cur_frame_idx);
RecordUploads ==
    /\ Statement = "record_uploads"
    /\ cmds' = [cmds EXCEPT !.commands =
                   @ \o uploads_of(proc_meshes, Sorted(DOMAIN proc_meshes),
                                   cur_frame_idx)]
    /\ Did("upload", cur_frame_idx)
    /\ Advance
    /\ UNCHANGED <<frame_count, cur_frame_idx, frame_allocator, frame_fences,
                   proc_meshes, next_mesh_id, graphics_queue, calls,
                   allocators_used, allocVars, loadVars, restVars>>

\* for(const auto& renderpass : renderpasses) renderpass->render(cmds, ctx);
RecordPasses ==
    /\ Statement = "record_passes"
    /\ cmds' = [cmds EXCEPT !.commands =
                   @ \o [k \in 1..Len(renderpasses) |->
                           [cmd |-> "render", what |-> renderpasses[k].name,
                            idx |-> cur_frame_idx]]]
    /\ Did("passes", cur_frame_idx)
    /\ Advance
    /\ UNCHANGED <<frame_count, cur_frame_idx, frame_allocator, frame_fences,
                   proc_meshes, next_mesh_id, graphics_queue, calls,
                   allocators_used, allocVars, loadVars, restVars>>

\* a submission that signals the fence of the next image
fence_of_next_image(idx) == (idx + 1) % NUM_IN_FLIGHT_FRAMES

\* frame_fences.at(cur_frame_idx), the fence_to_signal of the submission
fence_to_signal(idx) == idx

\* rhi->submit_command_list(cmds, Graphics, frame_fences.at(cur_frame_idx)):
\* vkEndCommandBuffer, then vkQueueSubmit with the fence to signal
SubmitCommandList ==
    /\ Statement = "submit_command_list"
    /\ cmds' = [cmds EXCEPT !.state = "submitted"]
    /\ graphics_queue' = Append(graphics_queue,
                                [commands |-> cmds.commands,
                                 fence |-> fence_to_signal(cur_frame_idx)])
    /\ Did("submit", cur_frame_idx)
    /\ Advance
    /\ UNCHANGED <<frame_count, cur_frame_idx, frame_allocator, frame_fences,
                   proc_meshes, next_mesh_id, calls, allocators_used,
                   allocVars, loadVars, restVars>>

\* The GPU finishes the oldest submission and signals its fence.
GpuComplete ==
    /\ graphics_queue # <<>>
    /\ frame_fences' = [frame_fences EXCEPT ![Head(graphics_queue).fence] = TRUE]
    /\ graphics_queue' = Tail(graphics_queue)
    /\ UNCHANGED <<frame_count, cur_frame_idx, frame_allocator, proc_meshes,
                   next_mesh_id, pc, cmds, trace, calls, allocators_used,
                   allocVars, loadVars, restVars>>

\* a wait with a timeout of zero: it returns whatever the fence's state
wait_timed_out(fences, idx) == TRUE

\* vkWaitForFences(device, 1, &fence, VK_TRUE, uint64 max): over once the fence
\* is signaled
wait_is_over(fences, idx) == fences[idx]

\* rhi->wait_for_fences({frame_fences.at(cur_frame_idx)}): returns once the
\* fence is signaled
WaitForFences ==
    /\ Statement = "wait_for_fences"
    /\ wait_is_over(frame_fences, cur_frame_idx)
    /\ Did("wait", cur_frame_idx)
    /\ Advance
    /\ UNCHANGED <<frame_count, cur_frame_idx, frame_allocator, frame_fences,
                   proc_meshes, next_mesh_id, cmds, graphics_queue, calls,
                   allocators_used, allocVars, loadVars, restVars>>

\* rhi->get_swapchain()->present(cur_frame_idx)
Present ==
    /\ Statement = "present"
    /\ trace' = Append(trace, [step |-> IF graphics_queue = <<>> THEN "present"
                                        ELSE "present while the GPU is busy",
                               idx |-> cur_frame_idx])
    /\ Advance
    /\ UNCHANGED <<frame_count, cur_frame_idx, frame_allocator, frame_fences,
                   proc_meshes, next_mesh_id, cmds, graphics_queue, calls,
                   allocators_used, allocVars, loadVars, restVars>>

\* shaderpacks the frame loop is run with
FramePacks == {OrderPack(<<{}>>), OrderPack(<<{}, {"A"}>>)}

NextFrame ==
    \/ Load
    \/ CreateProceduralMesh
    \/ BeginFrame
    \/ AcquireImage
    \/ ResetFences
    \/ CreateCommandList
    \/ RecordUploads
    \/ RecordPasses
    \/ SubmitCommandList
    \/ GpuComplete
    \/ WaitForFences
    \/ Present

InitSpecFrame ==
    /\ InitAlloc /\ alignment = 0 /\ InitLoad /\ InitFrame
    /\ InitRenderables /\ InitMore /\ InitFences /\ InitMemory
    /\ pack \in FramePacks

(***************************************************************************)
(* NovaRenderer: meshes, materials and renderables                         *)
(***************************************************************************)
\* NovaRenderer::create_mesh: the buffers are created, the vertex and the
\* index upload are each submitted to the transfer queue, and the mesh gets
\* the next mesh id.
CreateMesh ==
    /\ pc = 0 /\ ~crashed
    /\ next_mesh_id < MaxMeshes
    /\ transfer_submissions' = transfer_submissions + 2
    /\ meshes' = meshes \cup {next_mesh_id}
    /\ next_mesh_id' = next_mesh_id + 1
    /\ UNCHANGED <<next_renderable_id, material_pass_keys, passes_by_pipeline,
                   renderable_log>>
    /\ UNCHANGED <<frame_count, cur_frame_idx, frame_allocator, frame_fences,
                   proc_meshes, pc, cmds, graphics_queue, trace, calls,
                   allocators_used>>
    /\ UNCHANGED <<allocVars, loadVars, fenceVars, memVars, moreVars>>

\* shaderpack::MaterialPass
MaterialPass(material_name, name, pipeline) ==
    [material_name |-> material_name, name |-> name, pipeline |-> pipeline]

\* The material lists create_materials_for_pipeline is called with.
MaterialLists ==
    {<<[passes |-> <<MaterialPass("stone", "main", "P1")>>]>>,
     <<[passes |-> <<MaterialPass("stone", "main", "P1"),
                     MaterialPass("stone", "shadow", "P2")>>],
       [passes |-> <<MaterialPass("water", "main", "P2")>>]>>}

PipelineNames == {"P1", "P2"}

\* the passes of all materials, in the order the two loops visit them
RECURSIVE all_passes(_)
all_passes(materials) ==
    IF materials = <<>> THEN <<>>
    ELSE Head(materials).passes \o all_passes(Tail(materials))

\* The loops of create_materials_for_pipeline from the k-th pass on: a key for
\* every material pass of the pipeline; emplace keeps a key that is there.
RECURSIVE add_material_keys(_, _, _, _, _)
add_material_keys(keys, pass_datas, pipeline_name, num_passes, k) ==
    IF k > Len(pass_datas) THEN keys
    ELSE LET pass_data == pass_datas[k]
             full_pass_name == <<pass_data.material_name, pass_data.name>>
             key == [pipeline_name |-> pipeline_name,
                     material_pass_index |-> num_passes]
         IN IF pass_data.pipeline = pipeline_name
            THEN add_material_keys(
                     IF full_pass_name \in DOMAIN keys THEN keys
                     ELSE keys @@ (full_pass_name :> key),
                     pass_datas, pipeline_name, num_passes + 1, k + 1)
            ELSE add_material_keys(keys, pass_datas, pipeline_name, num_passes, k + 1)

\* NovaRenderer::create_materials_for_pipeline, for a pipeline without passes
create_materials_for_pipeline(keys, materials, pipeline_name) ==
    add_material_keys(keys, all_passes(materials), pipeline_name, 0, 1)

CreateMaterialsForPipeline ==
    /\ pc = 0 /\ ~crashed
    /\ Cardinality(DOMAIN material_pass_keys) < MaxMaterialCalls
    /\ \E materials \in MaterialLists, pipeline_name \in PipelineNames :
          material_pass_keys' =
              create_materials_for_pipeline(material_pass_keys, materials, pipeline_name)
    /\ UNCHANGED <<meshes, transfer_submissions, next_renderable_id,
                   passes_by_pipeline, renderable_log>>
    /\ UNCHANGED <<allocVars, loadVars, frameVars, fenceVars, memVars, moreVars>>

\* a failure return that hands out the id taken for the call
no_material_id_taken(id) == id

\* return std::numeric_limits<uint64_t>::max();
no_material_id(id) == uint64_max

\* the MaterialPass add_renderable_for_material fills for the renderable
material_for(renderable, id) ==
    LET command == [id |-> id, mesh |-> renderable.mesh]
    IN IF renderable.mesh \in meshes
       THEN [static_mesh_draws |->
                 IF renderable.is_static
                 THEN <<[vertex_buffer |-> renderable.mesh, commands |-> <<command>>]>>
                 ELSE <<>>,
             static_procedural_mesh_draws |-> <<>>]
       ELSE \* need_to_add_batch starts false for a procedural mesh and the
            \* fresh material has no batch to add the command to
            [static_mesh_draws |-> <<>>, static_procedural_mesh_draws |-> <<>>]

\* NovaRenderer::add_renderable_for_material
add_renderable_for_material(material_name, renderable) ==
    LET id == next_renderable_id
        taken == next_renderable_id + 1
    IN IF material_name \notin DOMAIN material_pass_keys
       THEN [ret |-> no_material_id(id), next_renderable_id |-> taken,
             passes_by_pipeline |-> passes_by_pipeline]
       ELSE LET pipeline_name == material_pass_keys[material_name].pipeline_name
                passes == IF pipeline_name \in DOMAIN passes_by_pipeline
                          THEN passes_by_pipeline[pipeline_name] ELSE <<>>
                added == Append(passes, material_for(renderable, id))
            IN [ret |-> id, next_renderable_id |-> taken,
                passes_by_pipeline |->
                    (pipeline_name :> added) @@ passes_by_pipeline]

MaterialNames == {<<"stone", "main">>, <<"water", "main">>, <<"lava", "main">>}

AddRenderableForMaterial ==
    /\ pc = 0 /\ ~crashed
    /\ renderable_log.calls < MaxRenderables
    /\ \E material_name \in MaterialNames, mesh \in 0..MaxMeshes, is_static \in BOOLEAN :
          LET r == add_renderable_for_material(
                       material_name, [mesh |-> mesh, is_static |-> is_static])
          IN /\ next_renderable_id' = r.next_renderable_id
             /\ passes_by_pipeline' = r.passes_by_pipeline
             /\ renderable_log' =
                    [calls |-> renderable_log.calls + 1,
                     material_name |-> material_name,
                     found |-> material_name \in DOMAIN material_pass_keys,
                     ret |-> r.ret]
    /\ UNCHANGED <<meshes, transfer_submissions, material_pass_keys>>
    /\ UNCHANGED <<allocVars, loadVars, frameVars, fenceVars, memVars, moreVars>>

NextRenderables ==
    \/ CreateMesh
    \/ CreateProceduralMesh
    \/ CreateMaterialsForPipeline
    \/ AddRenderableForMaterial

InitSpecRenderables ==
    /\ InitAlloc /\ alignment = 0 /\ InitLoad /\ InitFrame
    /\ InitRenderables /\ InitMore /\ InitFences /\ InitMemory
    /\ pack = NoPack

SpecRenderables == InitSpecRenderables /\ [][NextRenderables]_vars

(***************************************************************************)
(* VulkanRenderDevice: fences                                              *)
(***************************************************************************)
\* what a read past the first fence's handle finds that is no fence's handle
GARBAGE == -2

\* the fence lists wait_for_fences and reset_fences are called with
FenceLists ==
    {fences \in UNION {[1..n -> FenceIds] : n \in 1..MaxFenceList} :
        \A a, b \in DOMAIN fences : a # b => fences[a] # fences[b]}

\* The VkFence array vkWaitForFences is given: fences.size() handles starting
\* at &fences[0]->fence. The first is the first fence's handle; the others are
\* whatever `memory` holds behind it, the handle of some fence or anything.
wait_for_fences_handles(fences, memory) ==
    [k \in DOMAIN fences |-> IF k = 1 THEN fences[1] ELSE memory[k - 1]]

\* wait_for_fences is called and blocks in vkWaitForFences
WaitForFencesCall ==
    /\ ~crashed
    /\ fence_call.op # "wait" \/ fence_call.returned
    /\ \E fences \in FenceLists :
       \E memory \in [1..(Len(fences) - 1) -> FenceIds \cup {GARBAGE}] :
          fence_call' = [NoFenceCall EXCEPT
                           !.op = "wait", !.fences = fences,
                           !.handles = wait_for_fences_handles(fences, memory)]
    /\ UNCHANGED <<vk_fences, allocVars, loadVars, frameVars, renderVars, memVars, moreVars>>

\* vkWaitForFences returns: every fence of the array it was given is signaled.
\* A handle that is no fence is undefined behaviour: the wait does not hold
\* for it, or the process dies.
WaitForFencesReturn ==
    /\ ~crashed
    /\ fence_call.op = "wait" /\ ~fence_call.returned
    /\ \A k \in DOMAIN fence_call.handles :
          IF fence_call.handles[k] = GARBAGE THEN TRUE
          ELSE vk_fences[fence_call.handles[k]]
    /\ \E dies \in {b \in BOOLEAN :
                      b => \E k \in DOMAIN fence_call.handles :
                               fence_call.handles[k] = GARBAGE} :
          /\ crashed' = dies
          /\ fence_call' =
                IF dies THEN fence_call
                ELSE [fence_call EXCEPT
                        !.returned = TRUE,
                        !.all_signaled =
                            \A k \in DOMAIN fence_call.fences :
                                vk_fences[fence_call.fences[k]]]
    /\ UNCHANGED <<vk_fences, allocVars, frameVars, renderVars, memVars, moreVars>>
    /\ UNCHANGED <<pack, renderpasses, renderpass_metadatas, builtin_renderpasses,
                   render_targets, dynamic_texture_infos, shaderpack_loaded,
                   load_log, loads, rhi_calls>>

\* VulkanRenderDevice::reset_fences: the handles are copied one by one into a
\* vector and vkResetFences is given that vector
reset_fences(fences) ==
    [f \in FenceIds |->
        IF \E k \in DOMAIN fences : fences[k] = f THEN FALSE ELSE vk_fences[f]]

ResetFencesCall ==
    /\ ~crashed
    /\ fence_call.op # "wait" \/ fence_call.returned
    /\ \E fences \in FenceLists :
          /\ vk_fences' = reset_fences(fences)
          /\ fence_call' = [NoFenceCall EXCEPT
                              !.op = "reset", !.fences = fences,
                              !.returned = TRUE,
                              !.all_unsignaled =
                                  \A k \in DOMAIN fences : ~vk_fences'[fences[k]]]
    /\ UNCHANGED <<allocVars, loadVars, frameVars, renderVars, memVars, moreVars>>

\* The GPU finishes the work a fence was submitted with and signals it.
SignalFence ==
    /\ \E f \in FenceIds :
          /\ ~vk_fences[f]
          /\ vk_fences' = [vk_fences EXCEPT ![f] = TRUE]
    /\ UNCHANGED <<fence_call, allocVars, loadVars, frameVars, renderVars, memVars, moreVars>>

NextFences ==
    \/ WaitForFencesCall
    \/ WaitForFencesReturn
    \/ ResetFencesCall
    \/ SignalFence

InitSpecFences ==
    /\ InitAlloc /\ alignment = 0 /\ InitLoad /\ InitFrame
    /\ InitRenderables /\ InitMore /\ InitMemory
    /\ vk_fences \in [FenceIds -> BOOLEAN]
    /\ fence_call = NoFenceCall
    /\ pack = NoPack

SpecFences == InitSpecFences /\ [][NextFences]_vars

(***************************************************************************)
(* VulkanRenderDevice: device memory                                       *)
(***************************************************************************)
MemoryPropertyFlags == {"DEVICE_LOCAL", "HOST_VISIBLE", "HOST_COHERENT", "HOST_CACHED"}

MemoryUsage == {"DeviceOnly", "LowFrequencyUpload", "StagingBuffer"}

\* the search mode of a call that names none
DefaultSearchMode == "Fuzzy"

\* VulkanRenderDevice::find_memory_type_with_flags: the index (from 0) of the
\* first memory type that matches, VK_MAX_MEMORY_TYPES when none does
find_memory_type_with_flags(types, search_flags, search_mode) ==
    LET matching == {i \in DOMAIN types :
                        IF search_mode = "Exact"
                        THEN types[i] = search_flags
                        ELSE types[i] \cap search_flags # {}}
    IN IF matching = {} THEN VK_MAX_MEMORY_TYPES ELSE Min(matching) - 1

\* the switch of allocate_device_memory: the memory type for the usage
memory_type_for(types, usage) ==
    IF usage = "DeviceOnly"
    THEN LET exact == find_memory_type_with_flags(types, {"DEVICE_LOCAL"}, "Exact")
         IN IF exact = VK_MAX_MEMORY_TYPES
            THEN find_memory_type_with_flags(types, {"DEVICE_LOCAL"}, DefaultSearchMode)
            ELSE exact
    ELSE IF usage = "LowFrequencyUpload"
    THEN LET both == find_memory_type_with_flags(
                         types, {"DEVICE_LOCAL", "HOST_VISIBLE"}, DefaultSearchMode)
         IN IF both = VK_MAX_MEMORY_TYPES
            THEN find_memory_type_with_flags(types, {"HOST_CACHED"}, DefaultSearchMode)
            ELSE both
    ELSE find_memory_type_with_flags(
             types, {"HOST_VISIBLE", "HOST_CACHED"}, DefaultSearchMode)

\* VulkanRenderDevice::allocate_device_memory: vkAllocateMemory's result is
\* not looked at and the function ends in `return ntl::Result(memory)`
allocate_device_memory(types, usage, vk_result) ==
    [called |-> TRUE, usage |-> usage,
     memoryTypeIndex |-> memory_type_for(types, usage),
     vk_result |-> vk_result,
     has_value |-> TRUE,
     memory |-> IF vk_result = "VK_SUCCESS" THEN "allocated" ELSE "uninitialized"]

\* A call of allocate_device_memory. vkAllocateMemory with the index
\* VK_MAX_MEMORY_TYPES cannot succeed; after it, and after vkMapMemory of a
\* handle that was never written, the process may die.
AllocateDeviceMemory ==
    /\ ~crashed
    /\ \E usage \in MemoryUsage,
          vk_result \in {"VK_SUCCESS", "VK_ERROR_OUT_OF_DEVICE_MEMORY"} :
          LET r == allocate_device_memory(memory_types, usage, vk_result)
              ub == \/ r.memoryTypeIndex = VK_MAX_MEMORY_TYPES
                    \/ (usage = "StagingBuffer" /\ vk_result # "VK_SUCCESS")
          IN /\ r.memoryTypeIndex = VK_MAX_MEMORY_TYPES => vk_result # "VK_SUCCESS"
             /\ \E dies \in {b \in BOOLEAN : b => ub} :
                   /\ crashed' = dies
                   /\ mem_result' = IF dies THEN [r EXCEPT !.has_value = FALSE,
                                                          !.memory = ""]
                                    ELSE r
    /\ UNCHANGED <<memory_types, allocVars, frameVars, renderVars, fenceVars, moreVars>>
    /\ UNCHANGED <<pack, renderpasses, renderpass_metadatas, builtin_renderpasses,
                   render_targets, dynamic_texture_infos, shaderpack_loaded,
                   load_log, loads, rhi_calls>>

MemoryTypeLists ==
    UNION {[1..n -> SUBSET MemoryPropertyFlags] : n \in 1..MaxMemoryTypes}

NextMemory == AllocateDeviceMemory

InitSpecMemory ==
    /\ InitAlloc /\ alignment = 0 /\ InitLoad /\ InitFrame
    /\ InitRenderables /\ InitMore /\ InitFences
    /\ memory_types \in MemoryTypeLists
    /\ mem_result = NoMemoryCall
    /\ pack = NoPack

SpecMemory == InitSpecMemory /\ [][NextMemory]_vars

SpecFrame == InitSpecFrame /\ [][NextFrame]_vars

\* the statements of execute_frame that neither wait for the swapchain nor
\* for the GPU, and the fence wait once its fence is signaled
ExecuteFrameStep ==
    \/ ResetFences
    \/ CreateCommandList
    \/ RecordUploads
    \/ RecordPasses
    \/ SubmitCommandList
    \/ WaitForFences
    \/ Present

\* The frame loop on a machine that makes progress: the thread in
\* execute_frame goes on, image acquisition returns, and the GPU completes
\* what was submitted.
SpecFrameLive ==
    /\ InitSpecFrame /\ [][NextFrame]_vars
    /\ WF_vars(ExecuteFrameStep)
    /\ WF_vars(AcquireImage)
    /\ WF_vars(GpuComplete)

(***************************************************************************)
(* ProceduralMesh: setting data and uploading it in the frame              *)
(***************************************************************************)
\* ProceduralMesh::set_vertex_data through a ProceduralMeshAccessor
SetVertexData ==
    /\ pc = 0 /\ ~crashed
    /\ data_calls < MaxSetData
    /\ \E id \in DOMAIN proc_meshes, size \in 0..MaxData :
          proc_meshes' = [proc_meshes EXCEPT
                             ![id] = set_vertex_data(proc_meshes[id], size, nova_debug)]
    /\ data_calls' = data_calls + 1
    /\ UNCHANGED <<frame_count, cur_frame_idx, frame_allocator, frame_fences,
                   next_mesh_id, pc, cmds, graphics_queue, trace, calls,
                   allocators_used>>
    /\ UNCHANGED <<allocVars, loadVars, renderVars, fenceVars, memVars, resVars,
                   threadVars, nova_debug>>

\* ProceduralMesh::set_index_data through a ProceduralMeshAccessor
SetIndexData ==
    /\ pc = 0 /\ ~crashed
    /\ data_calls < MaxSetData
    /\ \E id \in DOMAIN proc_meshes, size \in 0..MaxData :
          proc_meshes' = [proc_meshes EXCEPT
                             ![id] = set_index_data(proc_meshes[id], size, nova_debug)]
    /\ data_calls' = data_calls + 1
    /\ UNCHANGED <<frame_count, cur_frame_idx, frame_allocator, frame_fences,
                   next_mesh_id, pc, cmds, graphics_queue, trace, calls,
                   allocators_used>>
    /\ UNCHANGED <<allocVars, loadVars, renderVars, fenceVars, memVars, resVars,
                   threadVars, nova_debug>>

NextUpload ==
    \/ CreateProceduralMesh
    \/ SetVertexData
    \/ SetIndexData
    \/ BeginFrame
    \/ AcquireImage
    \/ ResetFences
    \/ CreateCommandList
    \/ RecordUploads
    \/ RecordPasses
    \/ SubmitCommandList
    \/ GpuComplete
    \/ WaitForFences
    \/ Present

\* a debug or a release build of the renderer, no shaderpack loaded
InitSpecUpload ==
    /\ InitAlloc /\ alignment = 0 /\ InitLoad /\ InitFrame
    /\ InitRenderables /\ InitFences /\ InitMemory
    /\ InitResources /\ InitThreads
    /\ nova_debug \in BOOLEAN /\ data_calls = 0
    /\ pack = NoPack

SpecUpload == InitSpecUpload /\ [][NextUpload]_vars

Allocate ==
    /\ ops < MaxOps
    /\ ~call.ub
    /\ \E request \in 0..MaxRequest :
         LET r == allocate(Strategy, memory_size, alignment, request, allocation)
         IN /\ blocks' = r.st.blocks
            /\ head' = r.st.head
            /\ allocated' = r.st.allocated
            /\ next_block_id' = r.st.next_block_id
            /\ allocation' = r.allocation
            /\ live' = IF r.ret THEN Append(live, r.allocation) ELSE live
            /\ call' = [op |-> "allocate", size |-> request, ret |-> r.ret,
                        ub |-> FALSE]
    /\ ops' = ops + 1
    /\ UNCHANGED <<memory_size, alignment, loadVars, frameVars, restVars>>

Free ==
    /\ ops < MaxOps
    /\ ~call.ub
    /\ \E i \in DOMAIN live :
         LET r == free(Strategy, live[i])
         IN /\ blocks' = r.blocks
            /\ head' = r.head
            /\ allocated' = r.allocated
            /\ next_block_id' = r.next_block_id
            /\ live' = Remove(live, i)
            /\ call' = [op |-> "free", size |-> live[i].size, ret |-> TRUE,
                        ub |-> r.ub]
    /\ ops' = ops + 1
    /\ UNCHANGED <<memory_size, alignment, allocation, loadVars, frameVars, restVars>>

NextAlloc == Allocate \/ Free

InitSpecAlloc ==
    /\ InitAlloc /\ InitLoad /\ InitFrame
    /\ InitRenderables /\ InitMore /\ InitFences /\ InitMemory
    /\ pack = NoPack

SpecAlloc == InitSpecAlloc /\ [][NextAlloc]_vars

(***************************************************************************)
(* NovaRenderer::add_renderable_for_material called from several threads   *)
(***************************************************************************)
\* the renderables the threads add
ThreadRenderables == {[mesh |-> 0, is_static |-> TRUE]}

\* calls begun by the threads so far
ThreadCalls ==
    Len(returned_ids) + Cardinality({t \in ThreadIds : threads[t].pc # "idle"})

\* a thread enters the function: const RenderableId id = next_renderable_id.load();
ThreadLoad(t) ==
    /\ ~crashed
    /\ threads[t].pc = "idle"
    /\ ThreadCalls < MaxThreadCalls
    /\ \E material_name \in MaterialNames, renderable \in ThreadRenderables :
          threads' = [threads EXCEPT ![t] =
                         [pc |-> "loaded", id |-> next_renderable_id,
                          material_name |-> material_name,
                          renderable |-> renderable]]
    /\ UNCHANGED <<returned_ids, renderVars>>
    /\ UNCHANGED <<allocVars, loadVars, frameVars, fenceVars, memVars, resVars,
                   buildVars>>

\* next_renderable_id.fetch_add(1);
ThreadFetchAdd(t) ==
    /\ ~crashed
    /\ threads[t].pc = "loaded"
    /\ next_renderable_id' = next_renderable_id + 1
    /\ threads' = [threads EXCEPT ![t].pc = "added"]
    /\ UNCHANGED <<meshes, transfer_submissions, material_pass_keys,
                   passes_by_pipeline, renderable_log, returned_ids>>
    /\ UNCHANGED <<allocVars, loadVars, frameVars, fenceVars, memVars, resVars,
                   buildVars>>

\* material_pass_keys.find(material_name): the early return for a material
\* that is not there, or on to building the MaterialPass
ThreadFind(t) ==
    /\ ~crashed
    /\ threads[t].pc = "added"
    /\ IF threads[t].material_name \notin DOMAIN material_pass_keys
       THEN /\ returned_ids' = Append(returned_ids, no_material_id(threads[t].id))
            /\ threads' = [threads EXCEPT ![t] = IdleThread]
       ELSE /\ threads' = [threads EXCEPT ![t].pc = "found"]
            /\ UNCHANGED returned_ids
    /\ UNCHANGED renderVars
    /\ UNCHANGED <<allocVars, loadVars, frameVars, fenceVars, memVars, resVars,
                   buildVars>>

\* passes_by_pipeline[pass_key.pipeline_name].emplace_back(material); return id;
\* Two threads in this part of the function write the map without
\* synchronisation, a data race: the call goes through or the process dies.
ThreadEmplace(t) ==
    /\ ~crashed
    /\ threads[t].pc = "found"
    /\ LET pipeline_name == material_pass_keys[threads[t].material_name].pipeline_name
           passes == IF pipeline_name \in DOMAIN passes_by_pipeline
                     THEN passes_by_pipeline[pipeline_name] ELSE <<>>
           added == Append(passes, material_for(threads[t].renderable, threads[t].id))
       IN \E dies \in {b \in BOOLEAN :
                          b => \E u \in ThreadIds \ {t} : threads[u].pc = "found"} :
             /\ crashed' = dies
             /\ passes_by_pipeline' =
                    IF dies THEN passes_by_pipeline
                    ELSE (pipeline_name :> added) @@ passes_by_pipeline
             /\ returned_ids' =
                    IF dies THEN returned_ids ELSE Append(returned_ids, threads[t].id)
             /\ threads' = IF dies THEN threads ELSE [threads EXCEPT ![t] = IdleThread]
    /\ UNCHANGED <<meshes, transfer_submissions, next_renderable_id,
                   material_pass_keys, renderable_log>>
    /\ UNCHANGED <<pack, renderpasses, renderpass_metadatas, builtin_renderpasses,
                   render_targets, dynamic_texture_infos, shaderpack_loaded,
                   load_log, loads, rhi_calls>>
    /\ UNCHANGED <<allocVars, frameVars, fenceVars, memVars, resVars, buildVars>>

NextThreads ==
    \/ CreateMaterialsForPipeline
    \/ \E t \in ThreadIds : ThreadLoad(t)
    \/ \E t \in ThreadIds : ThreadFetchAdd(t)
    \/ \E t \in ThreadIds : ThreadFind(t)
    \/ \E t \in ThreadIds : ThreadEmplace(t)

InitSpecThreads ==
    /\ InitAlloc /\ alignment = 0 /\ InitLoad /\ InitFrame
    /\ InitRenderables /\ InitMore /\ InitFences /\ InitMemory
    /\ pack = NoPack

SpecThreads == InitSpecThreads /\ [][NextThreads]_vars

(***************************************************************************)
(* ResourceManager                                                         *)
(***************************************************************************)
\* the directories the resource manager is called with
Roots == 1..MaxRoots

\* a std::unique_ptr<FolderAccessorBase> that was moved from
MovedFrom == 0

\* std::find_if / std::remove_if over resource_folders: the positions whose
\* folder has the given root
positions_of(folders, root) == {k \in 1..Len(folders) : folders[k] = root}

\* ResourceManager::add_resource_root
add_resource_root(folders, new_root) ==
    IF positions_of(folders, new_root) # {} THEN folders
    ELSE Append(folders, new_root)

\* std::remove_if: the folders that stay, moved to the front in their order;
\* the returned iterator is the position after them
remove_if(folders, root) ==
    LET kept == SelectSeq(folders, LAMBDA f : f # root)
    IN [folders |-> kept \o [k \in 1..(Len(folders) - Len(kept)) |-> MovedFrom],
        itr |-> Len(kept) + 1]

\* ResourceManager::remove_resource_root: resource_folders.erase(remove_itr)
\* erases the one element at remove_itr. When no folder has the root,
\* remove_itr is end(), and erase(end()) is undefined behaviour: the standard
\* libraries either drop the last folder or die.
remove_resource_root(folders, root_to_remove, outcome) ==
    LET r == remove_if(folders, root_to_remove)
    IN IF r.itr <= Len(folders)
       THEN [folders |-> [k \in 1..(Len(folders) - 1) |->
                            IF k < r.itr THEN r.folders[k] ELSE r.folders[k + 1]],
             crashed |-> FALSE]
       ELSE IF outcome = "drop_last" /\ folders # <<>>
            THEN [folders |-> SubSeq(folders, 1, Len(folders) - 1), crashed |-> FALSE]
            ELSE [folders |-> folders, crashed |-> TRUE]

\* what erase(end()) can do
EraseEndOutcomes == {"drop_last", "crash"}

AddResourceRoot ==
    /\ ~crashed
    /\ resource_call.calls < MaxRootCalls
    /\ \E new_root \in Roots :
         /\ resource_folders' = add_resource_root(resource_folders, new_root)
         /\ resource_call' = [op |-> "add", root |-> new_root,
                              was_listed |-> positions_of(resource_folders, new_root) # {},
                              before |-> resource_folders,
                              calls |-> resource_call.calls + 1]
    /\ UNCHANGED <<allocVars, loadVars, frameVars, renderVars, fenceVars, memVars,
                   threadVars, buildVars>>

RemoveResourceRoot ==
    /\ ~crashed
    /\ resource_call.calls < MaxRootCalls
    /\ \E root_to_remove \in Roots, outcome \in EraseEndOutcomes :
         LET r == remove_resource_root(resource_folders, root_to_remove, outcome)
         IN /\ resource_folders' = r.folders
            /\ crashed' = r.crashed
            /\ resource_call' = [op |-> "remove", root |-> root_to_remove,
                                 was_listed |->
                                     positions_of(resource_folders, root_to_remove) # {},
                                 before |-> resource_folders,
                                 calls |-> resource_call.calls + 1]
    /\ UNCHANGED <<pack, renderpasses, renderpass_metadatas, builtin_renderpasses,
                   render_targets, dynamic_texture_infos, shaderpack_loaded,
                   load_log, loads, rhi_calls>>
    /\ UNCHANGED <<allocVars, frameVars, renderVars, fenceVars, memVars,
                   threadVars, buildVars>>

\* ResourceManager::clear_research_search_path
ClearResearchSearchPath ==
    /\ ~crashed
    /\ resource_call.calls < MaxRootCalls
    /\ resource_folders' = <<>>
    /\ resource_call' = [op |-> "clear", root |-> 0, was_listed |-> FALSE,
                         before |-> resource_folders,
                         calls |-> resource_call.calls + 1]
    /\ UNCHANGED <<allocVars, loadVars, frameVars, renderVars, fenceVars, memVars,
                   threadVars, buildVars>>

NextResources ==
    \/ AddResourceRoot
    \/ RemoveResourceRoot
    \/ ClearResearchSearchPath

InitSpecResources ==
    /\ InitAlloc /\ alignment = 0 /\ InitLoad /\ InitFrame
    /\ InitRenderables /\ InitMore /\ InitFences /\ InitMemory
    /\ pack = NoPack

SpecResources == InitSpecResources /\ [][NextResources]_vars

(***************************************************************************)
(* Properties of BlockAllocationStrategy                                   *)
(***************************************************************************)
RECURSIVE SumSizes(_, _)
SumSizes(bs, list) ==
    IF list = <<>> THEN 0 ELSE bs[Head(list)].size + SumSizes(bs, Tail(list))

\* offset, size and free flag of the listed blocks, in list order, and the counter
Content(st) ==
    [list |-> [k \in 1..Len(BlockList(st)) |->
                 LET b == st.blocks[BlockList(st)[k]]
                 IN [offset |-> b.offset, size |-> b.size, free |-> b.free]],
     allocated |-> st.allocated]

NoAdjacentFree(st) ==
    \A k \in 1..(Len(BlockList(st)) - 1) :
        ~(st.blocks[BlockList(st)[k]].free /\ st.blocks[BlockList(st)[k + 1]].free)

\* C1: after any sequence of allocate and free calls (frees of live allocations
\* only) the sizes of the blocks in the list add up to memory_size.
C1_SumOfBlockSizes ==
    SumSizes(blocks, BlockList(Strategy)) = memory_size

\* C2: the blocks walked from head through next tile [0, memory_size): the
\* first starts at 0, each next one starts where the previous one ends, and
\* the last one ends at memory_size.
C2_BlocksTile ==
    LET list == BlockList(Strategy)
    IN /\ list # <<>>
       /\ blocks[list[1]].offset = 0
       /\ \A k \in 1..(Len(list) - 1) :
            blocks[list[k + 1]].offset = blocks[list[k]].offset + blocks[list[k]].size
       /\ blocks[list[Len(list)]].offset + blocks[list[Len(list)]].size = memory_size

\* C3: any two allocations live at the same time have disjoint byte ranges
\* [offset, offset + size) and are not the same block.
C3_LiveDisjoint ==
    \A i, j \in DOMAIN live :
        i < j =>
            /\ \/ live[i].offset + live[i].size <= live[j].offset
               \/ live[j].offset + live[j].size <= live[i].offset
            /\ live[i].internal_data # live[j].internal_data

\* C4: when free returns, no two neighbours in the list are both free.
C4_CoalescedAfterFree ==
    (call.op = "free" /\ ~call.ub) => NoAdjacentFree(Strategy)

\* The free blocks of the list that share a byte with [lo, hi).
FreeBlocksTouching(st, lo, hi) ==
    {k \in 1..Len(BlockList(st)) :
        LET b == st.blocks[BlockList(st)[k]]
        IN b.free /\ b.offset < hi /\ lo < b.offset + b.size}

OneFreeBlockSpanning(st, lo, hi) ==
    /\ Cardinality(FreeBlocksTouching(st, lo, hi)) = 1
    /\ \A k \in FreeBlocksTouching(st, lo, hi) :
         LET b == st.blocks[BlockList(st)[k]]
         IN b.offset <= lo /\ hi <= b.offset + b.size

\* C5: freeing two live allocations that are adjacent by offset leaves exactly
\* one free block spanning their combined range, and the allocator ends in the
\* same state whichever of the two is freed first.
C5_AdjacentFreesCoalesce ==
    \A i, j \in DOMAIN live :
        (/\ i # j
         /\ live[i].offset + live[i].size = live[j].offset
         /\ live[i].offset < live[j].offset + live[j].size)
        => LET ab == free(free(Strategy, live[i]), live[j])
               ba == free(free(Strategy, live[j]), live[i])
           IN /\ ~ab.ub /\ ~ba.ub
              /\ OneFreeBlockSpanning(ab, live[i].offset, live[j].offset + live[j].size)
              /\ Content(ab) = Content(ba)

\* C6: allocate with a size whose aligned value exceeds memory_size - allocated
\* returns false and changes neither the blocks, nor the counters, nor the
\* caller's AllocationInfo.
C6_NoRoomNoChange ==
    [][(/\ call'.op = "allocate"
        /\ ops' = ops + 1
        /\ align(call'.size, alignment) > memory_size - allocated)
       => (/\ call'.ret = FALSE
           /\ blocks' = blocks /\ head' = head
           /\ allocated' = allocated /\ next_block_id' = next_block_id
           /\ allocation' = allocation /\ live' = live)]_vars

\* a failed allocate that asked for more than was free, with allocations live
C6_Witness ==
    /\ call.op = "allocate" /\ ~call.ret
    /\ align(call.size, alignment) > memory_size - allocated
    /\ live # <<>>
    /\ allocation = live[Len(live)]

(***************************************************************************)
(* Properties of shaderpack loading                                        *)
(***************************************************************************)
\* the create info a listed pass was built from
InfoOf(name) ==
    IF name = UI_RENDER_PASS_NAME
    THEN RenderPassCreateInfo(UI_RENDER_PASS_NAME, {}, <<BACKBUFFER_NAME>>)
    ELSE LET k == CHOOSE k \in DOMAIN pack.passes : pack.passes[k].name = name
         IN pack.passes[k]

Acyclic == order_passes(pack.passes).has_value

\* C7: after load_shaderpack of a shaderpack with an acyclic dependency graph,
\* for every two passes A and B of the executable pass list where B declares
\* A in its dependencies, A comes before B in the list.
C7_DependenciesFirst ==
    (loads > 0 /\ ~crashed /\ Acyclic) =>
        \A i, j \in DOMAIN renderpasses :
            renderpasses[i].name \in InfoOf(renderpasses[j].name).dependencies
                => i < j

\* C8: load_shaderpack of a shaderpack whose dependencies hold a cycle rejects
\* it: create_render_passes is not called with a list taken from the failed
\* ordering and the load is not reported as successful.
C8_CycleRejected ==
    (loads > 0 /\ load_log.order_error) =>
        /\ ~load_log.create_called
        /\ ~load_log.success_logged

(***************************************************************************)
(* The frame loop                                                          *)
(***************************************************************************)
\* what one whole execute_frame call does with swapchain image i
FrameSteps(i) ==
    [k \in 1..8 |->
        [step |-> <<"acquire", "reset", "create", "upload", "passes",
                    "submit", "wait", "present">>[k],
         idx |-> i]]

IsPrefix(s, t) == Len(s) <= Len(t) /\ \A k \in 1..Len(s) : s[k] = t[k]

FrameInOrder ==
    /\ IsPrefix(trace, FrameSteps(cur_frame_idx))
    /\ (pc = 0 /\ calls > 0) => trace = FrameSteps(cur_frame_idx)
    /\ \A k \in DOMAIN graphics_queue : graphics_queue[k].fence = cur_frame_idx

SubmittedListIsClosed ==
    (cmds.state = "submitted" /\ cmds'.state = "submitted")
        => cmds'.commands = cmds.commands

\* C9: every execute_frame call acquires the next swapchain image, resets that
\* image's fence, records the command list, submits it signaling that same
\* fence, waits for that same fence and presents the acquired image, in this
\* order and each once; no command is recorded into a submitted list and
\* present never happens while the GPU still works on the submission.
C9_FrameStepOrder == []FrameInOrder /\ [][SubmittedListIsClosed]_vars

C9_Witness ==
    /\ pc = 0 /\ calls >= 2
    /\ trace = FrameSteps(cur_frame_idx)
    /\ Len(cmds.commands) >= 2
    /\ cmds.state = "submitted"

\* C10: after N calls of execute_frame the frame counter has grown by N (it
\* starts at 0), and the allocator indices chosen by any NUM_IN_FLIGHT_FRAMES
\* consecutive calls are NUM_IN_FLIGHT_FRAMES distinct values, each an index
\* of frame_allocators.
C10_FrameCounterAndArena ==
    /\ frame_count = calls
    /\ Len(allocators_used) = calls
    /\ \A k \in DOMAIN allocators_used : allocators_used[k] \in frame_allocators
    /\ \A k \in 1..(Len(allocators_used) - NUM_IN_FLIGHT_FRAMES + 1) :
          Cardinality({allocators_used[j] : j \in k..(k + NUM_IN_FLIGHT_FRAMES - 1)})
              = NUM_IN_FLIGHT_FRAMES

C10_Witness ==
    /\ pc = 0
    /\ calls > NUM_IN_FLIGHT_FRAMES
    /\ allocators_used[calls] = allocators_used[calls - NUM_IN_FLIGHT_FRAMES]


(***************************************************************************)
(* Properties of render-graph construction                                 *)
(***************************************************************************)
PackPasses == {pack.passes[k] : k \in DOMAIN pack.passes}

Names(passes) == [k \in DOMAIN passes |-> passes[k].name]

\* the pass list holds a pass of this name
Listed(name) == \E k \in DOMAIN renderpasses : renderpasses[k].name = name

\* the last load asked the RHI for this kind of object for the pass
Asked(kind, name) ==
    \E k \in DOMAIN rhi_calls : rhi_calls[k].call = kind /\ rhi_calls[k].pass = name

\* the last load added a pass of this name with a backend renderpass
CreatedNow(name) ==
    \E k \in load_log.first..Len(renderpasses) :
        renderpasses[k].name = name /\ renderpasses[k].renderpass = "live"

Known(target) ==
    \E k \in DOMAIN pack.render_targets : pack.render_targets[k].name = target

SizeOf(target) ==
    LET k == CHOOSE k \in DOMAIN pack.render_targets :
                 pack.render_targets[k].name = target
    IN pack.render_targets[k].size

Targets(info) ==
    {info.texture_outputs[k] : k \in DOMAIN info.texture_outputs} \ {BACKBUFFER_NAME}

\* the render targets a pass attaches: its outputs and its depth texture
Attachments(info) == Targets(info) \cup ({info.depth_texture} \ {""})

SizeMismatch(info) ==
    \E a, b \in Attachments(info) : Known(a) /\ Known(b) /\ SizeOf(a) # SizeOf(b)

BackbufferShared(info) ==
    /\ \E k \in DOMAIN info.texture_outputs : info.texture_outputs[k] = BACKBUFFER_NAME
    /\ Len(info.texture_outputs) > 1

UnknownTarget(info) == \E a \in Targets(info) : ~Known(a)

\* a pass nothing is wrong with: render targets that exist, of one size and
\* no more than the device takes, or the backbuffer alone
WellFormed(info) ==
    /\ Len(info.texture_outputs) \in 1..MaxColorAttachments
    /\ ~BackbufferShared(info)
    /\ ~UnknownTarget(info)
    /\ ~SizeMismatch(info)

Loaded == loads > 0 /\ ~crashed /\ ~load_log.order_error

\* C11: after construction and one load_shaderpack, every builtin pass stands
\* in the executable pass list after all passes the shaderpack declares; for
\* the declared passes A (no dependencies), B (dependencies A) and the
\* builtin UI pass the list is exactly A, B, UI.
C11_BuiltinsLast ==
    Loaded =>
        /\ \A i, j \in DOMAIN renderpasses :
              (renderpasses[i].is_builtin /\ ~renderpasses[j].is_builtin) => j < i
        /\ (loads = 1 /\ pack = OrderPack(<<{}, {"A"}>>)) =>
              Names(renderpasses) = <<"A", "B", UI_RENDER_PASS_NAME>>

\* C12: a pass with two non-backbuffer attachments of differing pixel
\* dimensions is rejected: the RHI is asked for no renderpass and no
\* framebuffer for it, it is in neither the pass list nor the metadata table,
\* and the well-formed passes of the same create_render_passes call are
\* created.
C12_SizeMismatchRejected ==
    Loaded =>
        \A info \in PackPasses :
            /\ SizeMismatch(info) =>
                  /\ ~Asked("create_renderpass", info.name)
                  /\ ~Asked("create_framebuffer", info.name)
                  /\ ~Listed(info.name)
                  /\ info.name \notin DOMAIN renderpass_metadatas
            /\ (WellFormed(info) /\ \E other \in PackPasses : SizeMismatch(other))
                  => CreatedNow(info.name)

\* C13: a pass that declares the backbuffer together with at least one other
\* output attachment is rejected: it is not in the executable pass list and the
\* RHI is asked for no renderpass for it.
C13_BackbufferExclusive ==
    Loaded =>
        \A info \in PackPasses :
            BackbufferShared(info) =>
                /\ ~Listed(info.name)
                /\ ~Asked("create_renderpass", info.name)

C13_Witness ==
    /\ Loaded
    /\ \E info, other \in PackPasses :
          /\ BackbufferShared(info) /\ info.texture_outputs[1] # BACKBUFFER_NAME
          /\ CreatedNow(other.name)

\* C14: a pass that names an output attachment, other than the backbuffer, for
\* which no render target exists is skipped: it is not in the executable pass
\* list and no framebuffer is created for it, and the well-formed passes of
\* the shaderpack are loaded.
C14_UnknownTargetSkipped ==
    Loaded =>
        \A info \in PackPasses :
            /\ UnknownTarget(info) =>
                  /\ ~Listed(info.name)
                  /\ ~Asked("create_framebuffer", info.name)
            /\ (WellFormed(info) /\ \E other \in PackPasses : UnknownTarget(other))
                  => CreatedNow(info.name)

\* C16: a second load_shaderpack of the same shaderpack leaves the executable
\* pass list and the pass metadata table as they were after the first, and
\* nothing of the first load is left in the list.
C16_ReloadIdempotent ==
    (Loaded /\ loads = 2 /\ Acyclic) =>
        LET first == load_shaderpack(Constructed, FALSE, pack,
                                     order_passes(pack.passes).value)
        IN /\ Names(renderpasses) = Names(first.renderpasses)
           /\ renderpass_metadatas = first.renderpass_metadatas
           /\ \A k \in DOMAIN renderpasses : renderpasses[k].renderpass # "destroyed"

\* the passes of the list that write to the backbuffer
BackbufferWriters ==
    {renderpasses[k].name : k \in {j \in DOMAIN renderpasses :
                                      renderpasses[j].writes_to_backbuffer}}

\* C17: in every state of the renderer at most one pass of the executable pass
\* list writes to the backbuffer; that pass has no other output and a null
\* framebuffer, and every other pass of the list has a framebuffer.
C17_OneBackbufferPass ==
    ~crashed =>
        /\ Cardinality(BackbufferWriters) <= 1
        /\ \A k \in DOMAIN renderpasses :
              IF renderpasses[k].writes_to_backbuffer
              THEN /\ Len(InfoOf(renderpasses[k].name).texture_outputs) = 1
                   /\ renderpasses[k].framebuffer = "null"
              ELSE renderpasses[k].framebuffer # "null"

\* C20: create_renderpass gives an error and no renderpass when the pass
\* declares more colour attachments than the device's maxColorAttachments.
C20_TooManyAttachments ==
    \A k \in DOMAIN rhi_calls :
        (/\ rhi_calls[k].call = "create_renderpass"
         /\ Len(InfoOf(rhi_calls[k].pass).texture_outputs) > MaxColorAttachments)
            => ~rhi_calls[k].has_value

(***************************************************************************)
(* Properties of renderables, fences and device memory                     *)
(***************************************************************************)
\* a step that is a call of add_renderable_for_material with a material name
\* that has no key
UnknownMaterialCall ==
    /\ renderable_log'.calls = renderable_log.calls + 1
    /\ ~renderable_log'.found

\* C15: add_renderable_for_material with a material/pass name that is not in
\* the loaded shaderpack returns the sentinel id, the maximum uint64 value, and
\* leaves all state that tracks renderables unchanged, the id counter
\* included.
C15_UnknownMaterialNoChange ==
    [][UnknownMaterialCall =>
          /\ renderable_log'.ret = uint64_max
          /\ passes_by_pipeline' = passes_by_pipeline
          /\ material_pass_keys' = material_pass_keys
          /\ next_renderable_id' = next_renderable_id]_vars

\* C15, amended: add_renderable_for_material with a material/pass name that is
\* not in the loaded shaderpack returns the sentinel id and leaves the
\* renderable tables, passes_by_pipeline and material_pass_keys, unchanged;
\* next_renderable_id has advanced by one, as after every call.
C15_UnknownMaterialKeepsTables ==
    [][UnknownMaterialCall =>
          /\ renderable_log'.ret = uint64_max
          /\ passes_by_pipeline' = passes_by_pipeline
          /\ material_pass_keys' = material_pass_keys
          /\ next_renderable_id' = next_renderable_id + 1]_vars

C15_Witness ==
    /\ renderable_log.calls > 1
    /\ ~renderable_log.found
    /\ renderable_log.ret = uint64_max
    /\ DOMAIN material_pass_keys # {}
    /\ DOMAIN passes_by_pipeline # {}

\* C18: wait_for_fences returns only when every fence of its argument list is
\* signaled, for lists of one fence or more; reset_fences leaves every fence of
\* its argument list unsignaled.
C18_FenceCalls ==
    (fence_call.returned /\ ~crashed) =>
        /\ fence_call.op = "wait" => fence_call.all_signaled
        /\ fence_call.op = "reset" => fence_call.all_unsignaled

\* C19: allocate_device_memory returns an error result, not a success with a
\* handle, whenever no memory type matches the usage after the one fallback
\* search (the index is still VK_MAX_MEMORY_TYPES) or the backend allocation
\* fails.
C19_MemoryErrorResult ==
    (/\ mem_result.called
     /\ ~crashed
     /\ \/ mem_result.memoryTypeIndex = VK_MAX_MEMORY_TYPES
        \/ mem_result.vk_result # "VK_SUCCESS")
        => ~mem_result.has_value

(***************************************************************************)
(* Properties of BlockAllocationStrategy: split, fit, round trip, links    *)
(***************************************************************************)
\* the step is a call of allocate
AllocateCall == call'.op = "allocate" /\ ops' = ops + 1

\* some listed block is free and holds size bytes
SomeBlockFits(st, size) ==
    \E k \in 1..Len(BlockList(st)) :
        st.blocks[BlockList(st)[k]].free /\ st.blocks[BlockList(st)[k]].size >= size

\* C24: a successful allocate that chooses a free block larger than the aligned
\* request splits it: the chosen block then has exactly the aligned size and is
\* not free, a new free block with the remainder (offset = chosen offset +
\* aligned size, size = old size - aligned size) follows it immediately, and
\* the returned AllocationInfo has the chosen block's offset and the aligned
\* size.
C24_SplitOnAllocate ==
    [][(/\ AllocateCall
        /\ call'.ret
        /\ blocks[allocation'.internal_data].size > align(call'.size, alignment))
       => LET size == align(call'.size, alignment)
              chosen == allocation'.internal_data
              rest == blocks'[chosen].next
          IN /\ blocks'[chosen].size = size
             /\ ~blocks'[chosen].free
             /\ rest # NULL
             /\ rest \notin DOMAIN blocks
             /\ blocks'[rest].free
             /\ blocks'[rest].offset = blocks[chosen].offset + size
             /\ blocks'[rest].size = blocks[chosen].size - size
             /\ allocation'.offset = blocks[chosen].offset
             /\ allocation'.size = size]_vars

\* C25: allocate returns false and changes no state when the free space is at
\* least the aligned request but no single free block is that large; it returns
\* true whenever some free block is at least the aligned request.
C25_FitDecidesResult ==
    [][AllocateCall
       => LET size == align(call'.size, alignment)
          IN /\ SomeBlockFits(Strategy, size) => call'.ret
             /\ (~SomeBlockFits(Strategy, size) /\ memory_size - allocated >= size)
                => (/\ ~call'.ret
                    /\ blocks' = blocks /\ head' = head
                    /\ allocated' = allocated /\ next_block_id' = next_block_id
                    /\ allocation' = allocation /\ live' = live)]_vars

\* C27: from any reachable state, a successful allocate immediately followed by
\* free of the returned allocation restores the block offsets, sizes and free
\* flags in list order and the allocated counter.
C27_AllocateFreeRoundTrip ==
    ~call.ub =>
        \A request \in 0..MaxRequest :
            LET r == allocate(Strategy, memory_size, alignment, request, allocation)
            IN r.ret => LET back == free(r.st, r.allocation)
                        IN ~back.ub /\ Content(back) = Content(Strategy)

\* C28: head has no previous block, and every listed block that has a next
\* block is that block's previous.
C28_LinksConsistent ==
    ~call.ub =>
        /\ blocks[head].previous = NULL
        /\ \A k \in 1..Len(BlockList(Strategy)) :
             LET b == BlockList(Strategy)[k]
             IN blocks[b].next # NULL =>
                  /\ blocks[b].next \in DOMAIN blocks
                  /\ blocks[blocks[b].next].previous = b

(***************************************************************************)
(* Properties of ResourceManager                                           *)
(***************************************************************************)
\* C22: remove_resource_root called with a directory that is not in the
\* resource search path has no effect: the ordered list of roots is unchanged.
C22_RemoveUnlistedRoot ==
    (resource_call.op = "remove" /\ ~resource_call.was_listed)
        => (~crashed /\ resource_folders = resource_call.before)

(***************************************************************************)
(* Properties of renderable ids                                            *)
(***************************************************************************)
\* C30: any two calls of add_renderable_for_material that return an id other
\* than the sentinel return different ids, also when the calls run on
\* different threads at the same time.
C30_RenderableIdsUnique ==
    ~crashed =>
        \A i, j \in DOMAIN returned_ids :
            (i < j /\ returned_ids[i] # uint64_max /\ returned_ids[j] # uint64_max)
                => returned_ids[i] # returned_ids[j]

(***************************************************************************)
(* Properties of procedural meshes and of the frame's fence                *)
(***************************************************************************)
\* C21: set_vertex_data and set_index_data never write more bytes to the
\* staging buffer, nor record more bytes as pending upload, than the declared
\* vertex (respectively index) buffer size, in debug and in release builds.
C21_WritesTruncated ==
    \A id \in DOMAIN proc_meshes :
        LET mesh == proc_meshes[id]
        IN /\ mesh.cached_vertex_bytes <= mesh.vertex_buffer_size
           /\ mesh.num_vertex_bytes_to_upload <= mesh.vertex_buffer_size
           /\ mesh.cached_index_bytes <= mesh.index_buffer_size
           /\ mesh.num_index_bytes_to_upload <= mesh.index_buffer_size

\* a command recorded by record_commands_to_upload_data
IsUpload(c) == c.cmd \in {"resource_barriers", "copy_buffer"}

\* the barrier command c has a barrier for the resource
Barriers(c, resource) ==
    {c.barriers[k] : k \in {n \in DOMAIN c.barriers :
                               c.barriers[n].resource_to_barrier = resource}}

\* execute_frame is past its upload loop
UploadsRecorded == pc # 0 /\ \E k \in DOMAIN trace : trace[k].step = "upload"

\* the upload commands in the list that belong to the mesh
UploadsOf(id) ==
    SelectSeq(cmds.commands, LAMBDA c : IF IsUpload(c) THEN c.mesh = id ELSE FALSE)

\* the bytes of the mesh that wait for upload: vertex and index
Pending(id) ==
    {kind \in {"vertex_buffers", "index_buffers"} :
        IF kind = "vertex_buffers"
        THEN proc_meshes[id].num_vertex_bytes_to_upload > 0
        ELSE proc_meshes[id].num_index_bytes_to_upload > 0}

\* every copy in the list has, for its destination, a barrier to CopyDestination
\* before it and a barrier back to the buffer's own state after it, and no
\* other barrier for that buffer on the wrong side
CopiesBetweenBarriers ==
    \A k \in DOMAIN cmds.commands :
        LET c == cmds.commands[k]
            back == IF c.destination[1] = "vertex_buffers" THEN "VertexBuffer"
                    ELSE "IndexBuffer"
            Before == {i \in 1..(k - 1) :
                         IF cmds.commands[i].cmd = "resource_barriers"
                         THEN Barriers(cmds.commands[i], c.destination) # {}
                         ELSE FALSE}
            After == {j \in (k + 1)..Len(cmds.commands) :
                         IF cmds.commands[j].cmd = "resource_barriers"
                         THEN Barriers(cmds.commands[j], c.destination) # {}
                         ELSE FALSE}
        IN c.cmd = "copy_buffer" =>
             /\ Before # {} /\ After # {}
             /\ \A i \in Before : \A b \in Barriers(cmds.commands[i], c.destination) :
                    b.old_state = back /\ b.new_state = "CopyDestination"
             /\ \A j \in After : \A b \in Barriers(cmds.commands[j], c.destination) :
                    b.old_state = "CopyDestination" /\ b.new_state = back

\* what the upload loop recorded for each mesh: nothing when nothing is
\* pending, else barrier, one copy per pending buffer, barrier, all of them for
\* the buffers of the frame's image
UploadsPerMesh ==
    UploadsRecorded =>
        \A id \in DOMAIN proc_meshes :
            LET mine == UploadsOf(id)
            IN /\ Pending(id) = {} => mine = <<>>
               /\ Pending(id) # {} =>
                    /\ Len(mine) = Cardinality(Pending(id)) + 2
                    /\ mine[1].cmd = "resource_barriers"
                    /\ mine[Len(mine)].cmd = "resource_barriers"
                    /\ \A k \in 2..(Len(mine) - 1) : mine[k].cmd = "copy_buffer"
                    /\ {mine[k].destination : k \in 2..(Len(mine) - 1)}
                         = {<<kind, id, cur_frame_idx>> : kind \in Pending(id)}
                    /\ \A k \in {1, Len(mine)} :
                         {mine[k].barriers[n].resource_to_barrier :
                              n \in DOMAIN mine[k].barriers}
                           = {<<kind, id, cur_frame_idx>> : kind \in Pending(id)}

\* no upload command comes after a renderpass of the frame
UploadsBeforePasses ==
    \A i, j \in DOMAIN cmds.commands :
        (cmds.commands[i].cmd = "render" /\ IsUpload(cmds.commands[j])) => j < i

\* C26: record_commands_to_upload_data records, for the buffers of the given
\* frame index only, a barrier to CopyDestination, then the copies, then a
\* barrier back to VertexBuffer/IndexBuffer, so every copy lies between the two
\* barriers; it records nothing when no bytes are pending; and execute_frame
\* records the uploads before any renderpass of the frame.
C26_UploadBetweenBarriers ==
    /\ CopiesBetweenBarriers
    /\ UploadsPerMesh
    /\ UploadsBeforePasses

\* a frame about to submit the uploads of a mesh with vertex and index data,
\* next to a mesh without data, followed by a renderpass
C26_Witness ==
    /\ Statement = "submit_command_list"
    /\ \E id \in DOMAIN proc_meshes : Cardinality(Pending(id)) = 2
    /\ \E id \in DOMAIN proc_meshes : Pending(id) = {}
    /\ \E k \in DOMAIN cmds.commands : cmds.commands[k].cmd = "copy_buffer"
    /\ cmds.commands[Len(cmds.commands)].cmd = "render"

\* C23: whenever execute_frame is not executing, no command list it submitted
\* is still in flight on the GPU; and once a frame has reset the fence of its
\* image, no earlier submission that used that image is still executing.
C23_NothingInFlightWhenIdle ==
    /\ pc = 0 => graphics_queue = <<>>
    /\ (/\ pc # 0
        /\ \E k \in DOMAIN trace : trace[k].step = "reset"
        /\ \A k \in DOMAIN trace : trace[k].step # "submit")
       => \A k \in DOMAIN graphics_queue : graphics_queue[k].fence # cur_frame_idx

\* a later frame got the image of the frame before it and has reset its fence
C23_Witness ==
    /\ calls >= 2
    /\ Statement = "create_command_list"
    /\ cmds.state = "submitted"
    /\ cmds.commands # <<>>
    /\ cmds.commands[1].idx = cur_frame_idx
    /\ ~frame_fences[cur_frame_idx]

\* the fence execute_frame waits for was reset by this call and then given to
\* a submission that is in flight or done
WaitedFenceHasSubmission ==
    Statement = "wait_for_fences" =>
        /\ \E i, j \in DOMAIN trace :
              /\ i < j
              /\ trace[i] = [step |-> "reset", idx |-> cur_frame_idx]
              /\ trace[j] = [step |-> "submit", idx |-> cur_frame_idx]
        /\ \/ frame_fences[cur_frame_idx]
           \/ \E k \in DOMAIN graphics_queue : graphics_queue[k].fence = cur_frame_idx

\* C29: every execute_frame call terminates when the GPU completes what is
\* submitted and image acquisition returns: the fence waited for is one this
\* call has reset and then passed to a submission, for any sequence of
\* acquired images and with the frame fences created signaled.
C29_ExecuteFrameTerminates ==
    /\ []WaitedFenceHasSubmission
    /\ (pc # 0) ~> (pc = 0)

\* a later call blocked in its wait, the GPU still working on its submission
C29_Witness ==
    /\ calls >= 2
    /\ Statement = "wait_for_fences"
    /\ ~frame_fences[cur_frame_idx]
    /\ graphics_queue # <<>>

====
